---- MODULE Spec2Model ----
(***************************************************************************)
(* Forecast engine of finsight-account-forecaster: occurrence calculation, *)
(* forecast regeneration against the record store, and balance projection. *)
(*                                                                         *)
(* Time.  A JavaScript Date is an instant.  The model counts instants in   *)
(* ticks, TicksPerDay ticks to the calendar day, so that the time of day   *)
(* of `new Date()` and of a parsed end date is kept apart from the         *)
(* calendar day that toISOString().split('T')[0] extracts.  The server's   *)
(* local time zone is taken to be UTC (getDay/setDate/setMonth act on the  *)
(* same calendar as toISOString).  Day 0 is 1 January of EpochYear.        *)
(*                                                                         *)
(* Money.  Amounts are integers in half cents, so that                     *)
(* Math.round(amount * 100) / 100 is a real rounding.                      *)
(***************************************************************************)
EXTENDS Integers, Sequences, FiniteSets, TLC

\* ------------------------------------------------------------ bounds

\* latest window start (in days) handed to calculateNextOccurrences
MaxOccStartDay == 2
\* latest window end (in days) handed to calculateNextOccurrences
MaxOccEndDay == 400
\* latest day of the rows and windows handed to projectBalance
MaxProjDay == 3

\* ------------------------------------------------------------ dates

Null == -1000

TicksPerDay == 2

EpochYear == 2026

\* getDay() of 1 January of EpochYear (a Thursday)
EpochWeekday == 4

\* toISOString().split('T')[0]: the calendar day of an instant
DateStr(t) == t \div TicksPerDay

TimeOfDay(t) == t % TicksPerDay

\* new Date(Date.UTC(y, m, d, 12, 0, 0)): noon of a calendar day
UtcNoon(day) ==
    LET NoonTick == TicksPerDay \div 2
    IN  day * TicksPerDay + NoonTick

\* d.setDate(d.getDate() + n)
AddDays(t, n) == t + n * TicksPerDay

\* d.getDay(): 0 = Sunday .. 6 = Saturday
GetDay(t) == (DateStr(t) + EpochWeekday) % 7

\* JavaScript's % truncates towards zero
JsMod(a, n) == IF a >= 0 THEN a % n ELSE 0 - ((0 - a) % n)

IsLeap(y) ==
    LET yy == EpochYear + y
    IN  yy % 4 = 0 /\ (yy % 100 # 0 \/ yy % 400 = 0)

DaysInMonth(y, m) ==
    IF m = 1 THEN (IF IsLeap(y) THEN 29 ELSE 28)
    ELSE IF m \in {3, 5, 8, 10} THEN 30 ELSE 31

RECURSIVE DaysBeforeYear(_)
DaysBeforeYear(y) ==
    LET DaysInYear(y0) == IF IsLeap(y0) THEN 366 ELSE 365
    IN  IF y <= 0 THEN 0 ELSE DaysBeforeYear(y - 1) + DaysInYear(y - 1)

RECURSIVE DaysBeforeMonth(_, _)
DaysBeforeMonth(y, m) ==
    IF m <= 0 THEN 0 ELSE DaysBeforeMonth(y, m - 1) + DaysInMonth(y, m - 1)

\* MakeDay: the day number of year y (from EpochYear), month m (0-based, may
\* exceed 11) and day of month d (may exceed the month: it rolls over)
MakeDay(y, m, d) ==
    LET yy == y + (m \div 12)
        mm == m % 12
    IN  DaysBeforeYear(yy) + DaysBeforeMonth(yy, mm) + d - 1

\* getFullYear() - EpochYear
GetYear(t) ==
    LET RECURSIVE YearOfFrom(_, _)
        YearOfFrom(day, y) ==
            IF day < DaysBeforeYear(y + 1) THEN y ELSE YearOfFrom(day, y + 1)
    IN  YearOfFrom(DateStr(t), 0)

\* getMonth(): 0 = January
GetMonth(t) ==
    LET RECURSIVE MonthOfFrom(_, _, _)
        MonthOfFrom(rest, y, m) ==
            IF rest < DaysInMonth(y, m) THEN m ELSE MonthOfFrom(rest - DaysInMonth(y, m), y, m + 1)
    IN  MonthOfFrom(DateStr(t) - DaysBeforeYear(GetYear(t)), GetYear(t), 0)

\* getDate(): day of the month, 1..31
GetDate(t) ==
    DateStr(t) - DaysBeforeYear(GetYear(t)) - DaysBeforeMonth(GetYear(t), GetMonth(t)) + 1

\* ------------------------------------------------------------ occurrences

HasValue(x) == x # Null

\* the end bound of the stepping: the pattern's endDate caps the window's
EffectiveEndDate(pattern, endDate) ==
    IF HasValue(pattern.endDate) /\ pattern.endDate < endDate
    THEN pattern.endDate
    ELSE endDate

\* the date the stepping starts from
FirstCurrentDate(pattern, startDate) ==
    LET \* while (currentDate < startDate) currentDate += 14 days
        RECURSIVE SkipFortnights(_, _)
        SkipFortnights(cur, startDate0) ==
            IF cur < startDate0 THEN SkipFortnights(AddDays(cur, 14), startDate0) ELSE cur
    IN
    IF pattern.frequency = "biweekly" /\ HasValue(pattern.startDate)
    THEN IF HasValue(pattern.dayOfWeek)
         THEN LET daysUntil == JsMod(pattern.dayOfWeek - GetDay(pattern.startDate) + 7, 7)
                  firstOccurrence == IF daysUntil > 0
                                     THEN AddDays(pattern.startDate, daysUntil)
                                     ELSE pattern.startDate
              IN  SkipFortnights(firstOccurrence, startDate)
         ELSE IF pattern.startDate > startDate THEN pattern.startDate ELSE startDate
    ELSE startDate

Frequencies == {"daily", "weekly", "biweekly", "monthly", "quarterly", "yearly"}

\* the switch on pattern.frequency: the date after currentDate
NextDate(pattern, cur) ==
    LET \* d.setMonth(d.getMonth() + k): the day of month is kept and rolls over
        AddMonths(t, k) ==
            MakeDay(GetYear(t), GetMonth(t) + k, GetDate(t)) * TicksPerDay + TimeOfDay(t)
        \* d.setFullYear(d.getFullYear() + 1)
        AddYear(t) ==
            MakeDay(GetYear(t) + 1, GetMonth(t), GetDate(t)) * TicksPerDay + TimeOfDay(t)
        \* d.setDate(dom): day dom of d's month, rolling over
        SetDate(t, dom) ==
            MakeDay(GetYear(t), GetMonth(t), dom) * TicksPerDay + TimeOfDay(t)
    IN
    CASE pattern.frequency = "daily" -> AddDays(cur, 1)
      [] pattern.frequency = "weekly" ->
            IF HasValue(pattern.dayOfWeek)
            THEN LET daysUntil == JsMod(pattern.dayOfWeek - GetDay(cur) + 7, 7)
                 IN  AddDays(cur, IF daysUntil # 0 THEN daysUntil ELSE 7)
            ELSE AddDays(cur, 7)
      [] pattern.frequency = "biweekly" -> AddDays(cur, 14)
      [] pattern.frequency = "monthly" ->
            IF HasValue(pattern.dayOfMonth)
            THEN SetDate(AddMonths(cur, 1), pattern.dayOfMonth)
            ELSE AddMonths(cur, 1)
      [] pattern.frequency = "quarterly" ->
            IF HasValue(pattern.dayOfMonth)
            THEN SetDate(AddMonths(cur, 3), pattern.dayOfMonth)
            ELSE AddMonths(cur, 3)
      [] pattern.frequency = "yearly" ->
            IF HasValue(pattern.dayOfMonth)
            THEN SetDate(AddYear(cur), pattern.dayOfMonth)
            ELSE AddYear(cur)
      [] OTHER -> Null

\* while (currentDate <= effectiveEndDate) { ... push nextDate or break }
\* `fuel` caps the iterations; it is never exhausted for a pattern whose
\* steps advance by a day or more
RECURSIVE OccurrenceLoop(_, _, _, _, _)
OccurrenceLoop(pattern, cur, eff, acc, fuel) ==
    IF fuel = 0 \/ ~(cur <= eff) \/ pattern.frequency \notin Frequencies
    THEN acc
    ELSE LET nextDate == NextDate(pattern, cur)
         IN  IF nextDate <= eff
             THEN OccurrenceLoop(pattern, nextDate, eff, Append(acc, nextDate), fuel - 1)
             ELSE acc

calculateNextOccurrences(pattern, startDate, endDate) ==
    LET eff == EffectiveEndDate(pattern, endDate)
        cur == FirstCurrentDate(pattern, startDate)
    IN  OccurrenceLoop(pattern, cur, eff, <<>>,
                       IF eff >= cur THEN DateStr(eff) - DateStr(cur) + 2 ELSE 0)

\* ------------------------------------------------------------ money

\* Math.round(amount * 100) / 100 on half cents: halves round towards +infinity
RoundCents(a) == 2 * ((a + 1) \div 2)

Abs(a) == IF a < 0 THEN 0 - a ELSE a

\* expense -> -amount without Math.abs
SignedAmountNoAbs(pattern) ==
    IF pattern.transactionType = "expense" THEN 0 - pattern.amount ELSE pattern.amount

\* expense -> -|amount|, otherwise +|amount|
SignedAmount(pattern) ==
    IF pattern.transactionType = "expense" THEN 0 - Abs(pattern.amount) ELSE Abs(pattern.amount)

RECURSIVE SumAmounts(_)
SumAmounts(rows) ==
    IF rows = {} THEN 0
    ELSE LET r == CHOOSE x \in rows : TRUE
         IN  r.amount + SumAmounts(rows \ {r})

\* ------------------------------------------------------------ state

VARIABLES
    now,        \* the clock: what `new Date()` returns
    patterns,   \* RecurringPattern rows (committed)
    transactions, \* Transaction rows: the synced bank history
    accessToken, \* the user's active AccessToken row: its transactionSyncCursor
    feed,       \* the bank feed: the transactions the item has at Plaid
    forecasts,  \* Forecast rows (committed)
    ftx,        \* ForecastTransaction rows (committed)
    sess,       \* per request handler: the generateForecast call in flight
    results,    \* what the last two completed generateForecast calls returned
    completed,  \* number of generateForecast calls completed
    changes,    \* number of forecast-transaction edits and creations so far
    others,     \* number of other requests and clock ticks so far
    edited,     \* the update-forecast-transaction requests served so far
    pure        \* the call of a pure function under test: inputs and output

vars == <<now, patterns, transactions, accessToken, feed, forecasts, ftx, sess, results,
          completed, changes, others, edited, pure>>

store == <<patterns, transactions, accessToken, forecasts, ftx>>

\* an AccessToken row that no sync has used: transactionSyncCursor is null
NoAccessToken == [transactionSyncCursor |-> Null]

Sessions == {1, 2}

\* the requesting user of every request of the model
Me == 1

\* Account rows: account 1 is the requesting user's, account 2 another
\* user's; no account 3 exists
Accounts ==
    { [id |-> 1, userId |-> 1, currentBalance |-> 2000],
      [id |-> 2, userId |-> 2, currentBalance |-> 600] }

AccountIds == {1, 2, 3}

\* a lookup by id alone, whoever owns the account
FindAccountAnyUser(userId, accountId) ==
    {a \in Accounts : a.id = accountId}

\* tx.account.findFirst({ where: { id: accountId, userId } })
FindAccount(userId, accountId) ==
    {a \in Accounts : a.id = accountId /\ a.userId = userId}

\* ------------------------------------------------------------ projection

\* the today filter lets every date through
isDateAfterTodayAlways(date) == TRUE

\* isDateAfterToday: calendar-day comparison with today, today excluded
isDateAfterToday(date) == DateStr(date) > DateStr(now)

\* the rows projectBalance loads and keeps
FutureTransactions(rows, userId, accountId, forecastId) ==
    {r \in rows : /\ r.forecastId = forecastId
                  /\ r.userId = userId
                  /\ r.accountId = accountId
                  /\ isDateAfterToday(r.date)}

\* while (currentDate <= end) { apply the day's bucket; push; next day }
RECURSIVE BalanceWalk(_, _, _, _, _)
BalanceWalk(future, cur, end, balance, acc) ==
    IF ~(cur <= end) THEN acc
    ELSE LET dayTransactions == {r \in future : DateStr(r.date) = DateStr(cur)}
             currentBalance == balance + SumAmounts(dayTransactions)
         IN  BalanceWalk(future, AddDays(cur, 1), end, currentBalance,
                         Append(acc, [date |-> cur, balance |-> currentBalance]))

\* projectBalance reads through the global client, outside any transaction:
\* `rows` are the committed ForecastTransaction rows
projectBalance(rows, userId, accountId, forecastId, initialBalance, startDate, endDate) ==
    BalanceWalk(FutureTransactions(rows, userId, accountId, forecastId),
                startDate, endDate, initialBalance, <<>>)

\* balanceSnapshots[length - 1]?.balance || initialBalance
FinalBalance(snapshots, initialBalance) ==
    IF Len(snapshots) = 0 \/ snapshots[Len(snapshots)].balance = 0
    THEN initialBalance
    ELSE snapshots[Len(snapshots)].balance

\* ------------------------------------------------------------ generation

\* `${recurringPatternId}-${dateStr}-${name}-${normalizedAmount}`
TransactionKey(patternId, date, name, amount) ==
    <<patternId, DateStr(date), name, RoundCents(amount)>>

\* the occurrences of one pattern that survive the today filter, as txnData
\* (date normalised to UTC noon), in date order
RECURSIVE PatternCandidates(_, _, _, _)
PatternCandidates(pattern, occ, i, acc) ==
    IF i > Len(occ) THEN acc
    ELSE LET normalizedDate == UtcNoon(DateStr(occ[i]))
             txnData == [recurringPatternId |-> pattern.id,
                         amount |-> SignedAmount(pattern),
                         date |-> normalizedDate,
                         name |-> pattern.name]
         IN  PatternCandidates(pattern, occ, i + 1,
                 IF isDateAfterToday(normalizedDate) THEN Append(acc, txnData) ELSE acc)

\* the staging loop over the patterns: skip a key already in existingKeys,
\* add every staged key to existingKeys
RECURSIVE StageCandidates(_, _, _)
StageCandidates(cands, keys, acc) ==
    IF cands = <<>> THEN acc
    ELSE LET c == Head(cands)
             k == TransactionKey(c.recurringPatternId, c.date, c.name, c.amount)
         IN  IF k \in keys
             THEN StageCandidates(Tail(cands), keys, acc)
             ELSE StageCandidates(Tail(cands), keys \cup {k}, Append(acc, c))

RECURSIVE AllCandidates(_, _, _)
AllCandidates(pats, startDate, endDate) ==
    IF pats = {} THEN <<>>
    ELSE LET p == CHOOSE x \in pats : \A y \in pats : x.id <= y.id
         IN  PatternCandidates(p, calculateNextOccurrences(p, startDate, endDate), 1, <<>>)
             \o AllCandidates(pats \ {p}, startDate, endDate)

\* transactionsToCreate
TransactionsToCreate(pats, existing, startDate, endDate) ==
    LET \* existingKeys of the rows that carry a pattern reference
        ExistingKeys(rows) ==
            {TransactionKey(r.recurringPatternId, r.date, r.name, r.amount) : r \in rows}
    IN
    StageCandidates(AllCandidates(pats, startDate, endDate), ExistingKeys(existing), <<>>)

\* tx.forecastTransaction.findFirst: the duplicate check before each insert
IsDuplicate(rows, forecastId, txnData) ==
    LET \* 0.01 in half cents
        OneCent == 2 * 1
    IN
    \E r \in rows :
        /\ r.forecastId = forecastId
        /\ r.recurringPatternId = txnData.recurringPatternId
        /\ r.date = txnData.date
        /\ r.name = txnData.name
        /\ r.amount >= RoundCents(txnData.amount) - OneCent
        /\ r.amount <= RoundCents(txnData.amount) + OneCent

\* ------------------------------------------------------------ the store
\* PostgreSQL at its default isolation, READ COMMITTED: a statement of a
\* transaction sees the committed rows and the transaction's own writes; an
\* UPDATE or DELETE of a row waits for the transaction holding that row.

IdleSess ==
    [pc |-> "idle", accountId |-> Null, endDate |-> Null, include |-> {},
     startDate |-> Null, initialBalance |-> 0, forecastId |-> Null,
     created |-> FALSE, fdata |-> <<>>, del |-> {}, ins |-> {},
     toCreate |-> <<>>, all |-> {}, snapshots |-> <<>>, beganAfter |-> 0,
     beganChanges |-> 0]

\* the ForecastTransaction rows transaction s sees
VisibleTransactions(s) ==
    {r \in ftx : r.id \notin sess[s].del} \cup sess[s].ins

\* no other transaction holds the row: the UPDATE need not wait
ForecastRowFree(s, fid) ==
    LET \* transaction s has updated Forecast row fid and not yet ended
        HoldsForecastRow(s0, fid0) ==
            /\ sess[s0].fdata # <<>>
            /\ ~sess[s0].created
            /\ sess[s0].forecastId = fid0
    IN  \A o \in Sessions \ {s} : ~HoldsForecastRow(o, fid)

\* no transaction has deleted the row without having ended
TransactionRowFree(id) == \A o \in Sessions : id \notin sess[o].del

\* findFirst({ where: { userId, accountId }, orderBy: { createdAt: 'desc' } })
LatestForecast(fs, userId, accountId) ==
    LET mine == {f \in fs : f.userId = userId /\ f.accountId = accountId}
    IN  IF mine = {} THEN Null
        ELSE (CHOOSE f \in mine : \A g \in mine : g.createdAt <= f.createdAt).id

\* a deleteMany without the isManual filter
DeleteTargetsAll(rows, forecastId) ==
    {r.id : r \in {x \in rows : x.forecastId = forecastId}}

\* deleteMany({ where: { forecastId, isManual: false } })
DeleteTargets(rows, forecastId) ==
    {r.id : r \in {x \in rows : x.forecastId = forecastId /\ ~x.isManual}}

\* recurringPattern.findMany({ where: { userId, accountId, id in include } })
FindPatterns(userId, accountId, include) ==
    {p \in patterns : /\ p.userId = userId
                      /\ p.accountId = accountId
                      /\ (include # {} => p.id \in include)}

Result(status, s, rows, snapshots, count) ==
    [status |-> status, accountId |-> sess[s].accountId, endDate |-> sess[s].endDate,
     include |-> sess[s].include, startDate |-> sess[s].startDate,
     initialBalance |-> sess[s].initialBalance, forecastId |-> sess[s].forecastId,
     created |-> sess[s].created, transactions |-> rows,
     snapshots |-> snapshots, count |-> count, changes |-> changes,
     beganAfter |-> sess[s].beganAfter, beganChanges |-> sess[s].beganChanges,
     seq |-> completed + 1]

\* what a call that threw leaves to observe: the error, the account asked for,
\* and how far the call had written (a forecast created, rows inserted)
Failure(status, accountId, created, count) ==
    [status |-> status, accountId |-> accountId, endDate |-> Null, include |-> {},
     startDate |-> Null, initialBalance |-> 0, forecastId |-> Null,
     created |-> created, transactions |-> {}, snapshots |-> <<>>, count |-> count,
     changes |-> 0, beganAfter |-> 0, beganChanges |-> 0, seq |-> completed + 1]

\* ------------------------------------------------------------ inputs

\* the calendar day of the end dates requested
MaxEndDay == 2
\* generateForecast calls in a run of one handler
MaxCalls == 2
\* generateForecast calls in a run of concurrent handlers
MaxConcurrentCalls == 3
\* requests other than generateForecast, and ticks of the clock, in a run
MaxOther == 1

\* new Date(endDate) of the request: midnight or noon of the end day
EndDates == {MaxEndDay * TicksPerDay, UtcNoon(MaxEndDay)}

IncludeSets == {{}, {1}}

PatternDaily ==
    [id |-> 1, userId |-> 1, accountId |-> 1, name |-> "rent", amount |-> 201,
     frequency |-> "daily", dayOfMonth |-> Null, dayOfWeek |-> Null,
     startDate |-> UtcNoon(0), endDate |-> Null, transactionType |-> "expense"]

PatternWeekly ==
    [id |-> 2, userId |-> 1, accountId |-> 1, name |-> "pay", amount |-> 800,
     frequency |-> "weekly", dayOfMonth |-> Null, dayOfWeek |-> 6,
     startDate |-> UtcNoon(0), endDate |-> Null, transactionType |-> "income"]

PatternOther ==
    [id |-> 3, userId |-> 2, accountId |-> 2, name |-> "rent", amount |-> 201,
     frequency |-> "daily", dayOfMonth |-> Null, dayOfWeek |-> Null,
     startDate |-> UtcNoon(0), endDate |-> Null, transactionType |-> "expense"]

IdlePure == [op |-> "none", done |-> TRUE]

Init ==
    /\ now = 0
    /\ patterns = {PatternDaily, PatternWeekly, PatternOther}
    /\ transactions = {}
    /\ accessToken = NoAccessToken
    /\ feed = <<>>
    /\ forecasts = {}
    /\ ftx = {}
    /\ sess = [s \in Sessions |-> IdleSess]
    /\ results = <<>>
    /\ completed = 0
    /\ changes = 0
    /\ others = 0
    /\ edited = {}
    /\ pure = IdlePure

\* the last two results are kept
Record(r) == IF Len(results) < 2 THEN Append(results, r) ELSE <<results[2], r>>

\* ------------------------------------------------------------ generateForecast

\* the call opens its transaction and looks the account up: no account, no
\* writes, 'Account not found'; else startDate = new Date() and
\* tx.forecast.findFirst: the account's latest forecast, if any
GenBegin(s, accountId, endDate, include) ==
    /\ sess[s].pc = "idle"
    /\ LET found == FindAccount(Me, accountId)
           req == [IdleSess EXCEPT !.accountId = accountId, !.endDate = endDate,
                                   !.include = include, !.startDate = now,
                                   !.beganAfter = completed,
                                   !.beganChanges = changes]
       IN  IF found = {}
           THEN /\ results' = Record(Failure("not_found", accountId, FALSE, 0))
                /\ completed' = completed + 1
                /\ UNCHANGED <<sess, store, feed>>
           ELSE /\ sess' = [sess EXCEPT ![s] =
                       [req EXCEPT !.pc = "upsert",
                                   !.initialBalance =
                                       (CHOOSE a \in found : TRUE).currentBalance,
                                   !.forecastId =
                                       LatestForecast(forecasts, Me, accountId)]]
                /\ UNCHANGED <<results, completed, store, feed>>
    /\ UNCHANGED <<now, changes, others, edited, pure>>

NewRowId(s, patternId, day, used) ==
    <<s, patternId, day,
      CHOOSE k \in 0..Cardinality(used) :
          /\ <<s, patternId, day, k>> \notin used
          /\ \A j \in 0..(k - 1) : <<s, patternId, day, j>> \in used>>

ForecastData(s, row) ==
    [row EXCEPT !.startDate = sess[s].startDate, !.endDate = sess[s].endDate,
                !.initialBalance = sess[s].initialBalance,
                !.projectedBalance = sess[s].initialBalance]

\* tx.forecast.update of the existing row (waits for the row), or
\* tx.forecast.create
GenUpsert(s) ==
    LET \* generated ids: a Forecast row is named after the handler that created it
        \* (a handler creates one only while it sees none), a ForecastTransaction row
        \* after its creator, pattern and day, with the first free serial number
        NewForecastId(s0) == s0
        \* createdAt orders the Forecast rows by the time of their creation
        CreatedBefore(s0) ==
            Cardinality(forecasts \cup
                        {sess[o].fdata[1] : o \in {x \in Sessions \ {s0} : sess[x].created}})
    IN
    /\ sess[s].pc = "upsert"
    /\ IF sess[s].forecastId # Null
       THEN /\ ForecastRowFree(s, sess[s].forecastId)
            /\ \E row \in forecasts :
                  /\ row.id = sess[s].forecastId
                  /\ sess' = [sess EXCEPT ![s].fdata = <<ForecastData(s, row)>>,
                                          ![s].pc = "delete"]
       ELSE /\ sess' = [sess EXCEPT
                  ![s].fdata = <<ForecastData(s,
                                  [id |-> NewForecastId(s), userId |-> Me,
                                   accountId |-> sess[s].accountId,
                                   startDate |-> Null, endDate |-> Null,
                                   initialBalance |-> 0, projectedBalance |-> 0,
                                   createdAt |-> CreatedBefore(s)])>>,
                  ![s].forecastId = NewForecastId(s),
                  ![s].created = TRUE,
                  ![s].pc = "load"]
    /\ UNCHANGED <<now, store, feed, results, completed, changes, others, edited, pure>>

\* a deleteMany issued through the global client: it takes effect at once,
\* outside the transaction
GenDeleteOutsideTransaction(s) ==
    /\ sess[s].pc = "delete"
    /\ ftx' = {r \in ftx : r.id \notin DeleteTargets(ftx, sess[s].forecastId)}
    /\ sess' = [sess EXCEPT ![s].pc = "load"]
    /\ UNCHANGED <<now, patterns, transactions, accessToken, feed, forecasts, results, completed, changes, others,
                   edited, pure>>

\* tx.forecastTransaction.deleteMany: the forecast's pattern rows
GenDelete(s) ==
    /\ sess[s].pc = "delete"
    /\ sess' = [sess EXCEPT ![s].del = DeleteTargets(VisibleTransactions(s), sess[s].forecastId),
                            ![s].pc = "load"]
    /\ UNCHANGED <<now, store, feed, results, completed, changes, others, edited, pure>>

\* generateForecastTransactions up to the insert loop:
\* tx.recurringPattern.findMany, tx.forecastTransaction.findMany of the rows
\* with a pattern reference, and the staging of transactionsToCreate
GenLoad(s) ==
    /\ sess[s].pc = "load"
    /\ LET pats == FindPatterns(Me, sess[s].accountId, sess[s].include)
           existing == {r \in VisibleTransactions(s) :
                           r.forecastId = sess[s].forecastId /\ r.recurringPatternId # Null}
       IN  sess' = [sess EXCEPT
               ![s].toCreate = TransactionsToCreate(pats, existing,
                                                    sess[s].startDate, sess[s].endDate),
               ![s].pc = "insert"]
    /\ UNCHANGED <<now, store, feed, results, completed, changes, others, edited, pure>>

\* one turn of the insert loop: findFirst for a duplicate, create if none
GenInsert(s) ==
    LET UsedIds(s0) == {r.id : r \in ftx \cup sess[s0].ins}
    IN
    /\ sess[s].pc = "insert"
    /\ sess[s].toCreate # <<>>
    /\ LET txnData == Head(sess[s].toCreate)
           row == [id |-> NewRowId(s, txnData.recurringPatternId,
                                   DateStr(txnData.date), UsedIds(s)),
                   userId |-> Me, accountId |-> sess[s].accountId,
                   forecastId |-> sess[s].forecastId,
                   recurringPatternId |-> txnData.recurringPatternId,
                   isManual |-> FALSE, amount |-> txnData.amount,
                   date |-> txnData.date, name |-> txnData.name]
       IN  IF IsDuplicate(VisibleTransactions(s), sess[s].forecastId, txnData)
           THEN sess' = [sess EXCEPT ![s].toCreate = Tail(sess[s].toCreate)]
           ELSE sess' = [sess EXCEPT ![s].toCreate = Tail(sess[s].toCreate),
                                     ![s].ins = sess[s].ins \cup {row}]
    /\ UNCHANGED <<now, store, feed, results, completed, changes, others, edited, pure>>

\* tx.forecastTransaction.findMany({ where: { forecastId } })
GenFetchAll(s) ==
    /\ sess[s].pc = "insert"
    /\ sess[s].toCreate = <<>>
    /\ sess' = [sess EXCEPT
           ![s].all = {r \in VisibleTransactions(s) : r.forecastId = sess[s].forecastId},
           ![s].pc = "project"]
    /\ UNCHANGED <<now, store, feed, results, completed, changes, others, edited, pure>>

\* this.projectBalance(...), which reads through the global client, then
\* tx.forecast.update({ data: { projectedBalance: finalBalance } })
GenProject(s) ==
    /\ sess[s].pc = "project"
    /\ LET balanceSnapshots ==
               projectBalance(ftx, Me, sess[s].accountId, sess[s].forecastId,
                              sess[s].initialBalance, sess[s].startDate, sess[s].endDate)
       IN  sess' = [sess EXCEPT
               ![s].snapshots = balanceSnapshots,
               ![s].fdata = <<[sess[s].fdata[1] EXCEPT !.projectedBalance =
                                  FinalBalance(balanceSnapshots, sess[s].initialBalance)]>>,
               ![s].pc = "commit"]
    /\ UNCHANGED <<now, store, feed, results, completed, changes, others, edited, pure>>

\* the callback returns: the transaction commits and the call returns
\* { forecast, transactions, balanceSnapshots }
GenCommit(s) ==
    LET \* the Forecast rows transaction s sees
        VisibleForecasts(s0) ==
            IF sess[s0].fdata = <<>> THEN forecasts
            ELSE {f \in forecasts : f.id # sess[s0].fdata[1].id} \cup {sess[s0].fdata[1]}
        NonManualCount(rows, forecastId) ==
            Cardinality({r \in rows : r.forecastId = forecastId /\ ~r.isManual})
    IN
    /\ sess[s].pc = "commit"
    /\ forecasts' = VisibleForecasts(s)
    /\ ftx' = VisibleTransactions(s)
    /\ results' = Record(
           Result("ok", s, sess[s].all, sess[s].snapshots,
                  NonManualCount(VisibleTransactions(s), sess[s].forecastId)))
    /\ completed' = completed + 1
    /\ sess' = [sess EXCEPT ![s] = IdleSess]
    /\ UNCHANGED <<now, patterns, transactions, accessToken, feed, changes, others, edited, pure>>

\* a statement fails or the 30 s timeout expires: the transaction rolls back
GenFail(s) ==
    /\ sess[s].pc \notin {"idle"}
    /\ results' = Record(Failure("failed", sess[s].accountId, sess[s].created,
                                 Cardinality(sess[s].ins)))
    /\ completed' = completed + 1
    /\ sess' = [sess EXCEPT ![s] = IdleSess]
    /\ UNCHANGED <<now, store, feed, changes, others, edited, pure>>

GenStep(s) ==
    \/ GenUpsert(s)
    \/ GenDelete(s)
    \/ GenLoad(s)
    \/ GenInsert(s)
    \/ GenFetchAll(s)
    \/ GenProject(s)

\* ------------------------------------------------------------ forecast routes

\* amounts a request may carry, in half cents
EditAmounts == {0 - 500}

ManualAmounts == {0 - 300}

\* the re-projection after an edit: projectBalance over the forecast's stored
\* window, then forecast.update({ projectedBalance })
Reproject(fs, rows, forecastId, accountId) ==
    {IF f.id = forecastId /\ f.userId = Me
     THEN [f EXCEPT !.projectedBalance =
              FinalBalance(projectBalance(rows, Me, accountId, f.id, f.initialBalance,
                                          f.startDate, f.endDate),
                           f.initialBalance)]
     ELSE f : f \in fs}

\* the update without the isManual flag being raised
UpdateForecastTransactionKeepsFlag(id, amount, date) ==
    /\ others < MaxOther
    /\ TransactionRowFree(id)
    /\ \E transaction \in ftx :
          /\ transaction.id = id
          /\ transaction.userId = Me
          /\ ForecastRowFree(0, transaction.forecastId)
          /\ LET updated == [transaction EXCEPT
                     !.amount = IF amount # Null THEN amount ELSE @,
                     !.date = IF date # Null THEN date ELSE @,
                     !.isManual = @]
                 rows == (ftx \ {transaction}) \cup {updated}
             IN  /\ ftx' = rows
                 /\ forecasts' = Reproject(forecasts, rows, transaction.forecastId,
                                           transaction.accountId)
                 /\ edited' = edited \cup
                        {[id |-> id, amount |-> amount, date |-> date]}
    /\ changes' = changes + 1
    /\ others' = others + 1
    /\ UNCHANGED <<now, patterns, transactions, accessToken, feed, sess, results, completed, pure>>

\* PUT /transactions/:id with { amount } or { date }: a pattern row becomes
\* manual and keeps its recurringPatternId; the forecast is re-projected
UpdateForecastTransaction(id, amount, date) ==
    /\ others < MaxOther
    /\ TransactionRowFree(id)
    /\ \E transaction \in ftx :
          /\ transaction.id = id
          /\ transaction.userId = Me
          /\ ForecastRowFree(0, transaction.forecastId)
          /\ LET updated == [transaction EXCEPT
                     !.amount = IF amount # Null THEN amount ELSE @,
                     !.date = IF date # Null THEN date ELSE @,
                     !.isManual = IF ~transaction.isManual
                                     /\ transaction.recurringPatternId # Null
                                  THEN TRUE ELSE @]
                 rows == (ftx \ {transaction}) \cup {updated}
             IN  /\ ftx' = rows
                 /\ forecasts' = Reproject(forecasts, rows, transaction.forecastId,
                                           transaction.accountId)
                 /\ edited' = edited \cup
                        {[id |-> id, amount |-> amount, date |-> date]}
    /\ changes' = changes + 1
    /\ others' = others + 1
    /\ UNCHANGED <<now, patterns, transactions, accessToken, feed, sess, results, completed, pure>>

\* POST /transactions/manual without isRecurring: a free-standing manual row
CreateManualTransaction(forecastId, accountId, amount, date) ==
    /\ others < MaxOther
    /\ ftx' = ftx \cup
          {[id |-> NewRowId(0, 0, DateStr(date), {r.id : r \in ftx}),
            userId |-> Me, accountId |-> accountId,
            forecastId |-> forecastId, recurringPatternId |-> Null,
            isManual |-> TRUE, amount |-> amount, date |-> date, name |-> "gift"]}
    /\ changes' = changes + 1
    /\ others' = others + 1
    /\ UNCHANGED <<now, patterns, transactions, accessToken, feed, forecasts, sess, results, completed, edited, pure>>

\* time passes
Tick ==
    /\ others < MaxOther
    /\ now' = now + 1
    /\ others' = others + 1
    /\ UNCHANGED <<store, feed, sess, results, completed, changes, edited, pure>>

GenerateForecastIn(S, maxCalls, accountIds, endDates, includes) ==
    LET CallsStarted == completed + Cardinality({s \in Sessions : sess[s].pc # "idle"})
    IN
    \E s \in S :
        \/ /\ CallsStarted < maxCalls
           /\ \E a \in accountIds, e \in endDates, i \in includes : GenBegin(s, a, e, i)
        \/ GenStep(s)
        \/ GenCommit(s)
        \/ GenFail(s)

\* the requests edit an amount and leave the date
EditTransaction ==
    \E r \in ftx, a \in EditAmounts : UpdateForecastTransaction(r.id, a, Null)

AddManualTransaction ==
    \E f \in forecasts, a \in ManualAmounts, d \in {UtcNoon(1), UtcNoon(MaxEndDay)} :
        CreateManualTransaction(f.id, f.accountId, a, d)

\* one request handler at a time runs generateForecast, between the other
\* requests and the passing of time
Next ==
    \/ GenerateForecastIn({1}, MaxCalls, AccountIds, EndDates, IncludeSets)
    \/ EditTransaction
    \/ AddManualTransaction
    \/ Tick

Spec == Init /\ [][Next]_vars

\* generateForecast requests for the same account served concurrently
NextConcurrent ==
    GenerateForecastIn(Sessions, MaxConcurrentCalls, {1}, {UtcNoon(MaxEndDay)}, {{}})

SpecConcurrent == Init /\ [][NextConcurrent]_vars

\* ------------------------------------------------------------ calculateNextOccurrences alone

InitOcc ==
    LET \* frequencies a stored pattern may carry: the six known ones and, update-pattern
        \* checking nothing, any other string
        OccFrequencies == Frequencies \cup {"fortnightly"}
        \* dayOfWeek values a stored pattern may carry: POST /transactions/manual stores
        \* parseInt(dayOfWeek, 10) as it comes
        OccDaysOfWeek == {Null, 0, 6, 0 - 4}
        OccDaysOfMonth == {Null, 1, 31}
        OccPatternStarts == {UtcNoon(0), UtcNoon(MaxOccStartDay + 1)}
        OccPatternEnds == {Null, UtcNoon(20)}
        OccPatterns ==
            {[id |-> 1, userId |-> 1, accountId |-> 1, name |-> "rent", amount |-> 201,
              frequency |-> f, dayOfMonth |-> dm, dayOfWeek |-> dw,
              startDate |-> ps, endDate |-> pe, transactionType |-> "expense"] :
                f \in OccFrequencies, dm \in OccDaysOfMonth, dw \in OccDaysOfWeek,
                ps \in OccPatternStarts, pe \in OccPatternEnds}
        \* each frequency with the phase field of its class
        OccInputPatterns ==
            {p \in OccPatterns :
                /\ p.frequency \in {"weekly", "biweekly"} => p.dayOfMonth = Null
                /\ p.frequency \notin {"weekly", "biweekly"} => p.dayOfWeek = Null
                /\ p.frequency \in {"daily", "fortnightly"} => p.dayOfMonth = Null}
        OccWindowStarts ==
            {d * TicksPerDay + tod : d \in {0, MaxOccStartDay}, tod \in 0..(TicksPerDay - 1)}
        \* window ends: short windows for every pattern, windows of a quarter and of
        \* more than a year for the patterns that step by a week or more
        OccWindowEnds(p) ==
            {UtcNoon(d) : d \in IF p.frequency = "daily" THEN {1, 16, 40}
                                ELSE {1, 16, 40, 100, MaxOccEndDay}}
    IN
    /\ now = 0
    /\ patterns = {}
    /\ transactions = {}
    /\ accessToken = NoAccessToken
    /\ feed = <<>>
    /\ forecasts = {}
    /\ ftx = {}
    /\ sess = [s \in Sessions |-> IdleSess]
    /\ results = <<>>
    /\ completed = 0
    /\ changes = 0
    /\ others = 0
    /\ edited = {}
    /\ pure \in UNION {{[op |-> "occurrences", done |-> FALSE, pattern |-> p,
                          startDate |-> ws, endDate |-> we, out |-> <<>>] :
                             ws \in OccWindowStarts, we \in OccWindowEnds(p)} :
                        p \in OccInputPatterns}

ApplyCalculateNextOccurrences ==
    /\ pure.op = "occurrences"
    /\ ~pure.done
    /\ pure' = [pure EXCEPT !.done = TRUE,
                            !.out = calculateNextOccurrences(pure.pattern, pure.startDate,
                                                             pure.endDate)]
    /\ UNCHANGED <<now, store, feed, sess, results, completed, changes, others, edited>>

SpecOcc == InitOcc /\ [][ApplyCalculateNextOccurrences]_vars

\* ------------------------------------------------------------ projectBalance alone

InitProj ==
    LET \* the amount of the row of day d: expenses on even days, income on odd days
        ProjAmount(d) == IF d % 2 = 0 THEN 0 - (300 + 200 * d) ELSE 300 + 200 * d
        \* stored rows of forecast 1, one a day, and a row of another forecast
        ProjRows ==
            {[id |-> <<0, 0, d, 0>>, userId |-> Me, accountId |-> 1, forecastId |-> 1,
              recurringPatternId |-> Null, isManual |-> TRUE,
              amount |-> ProjAmount(d), date |-> UtcNoon(d), name |-> "gift"] :
                d \in 0..MaxProjDay}
            \cup {[id |-> <<0, 0, 1, 1>>, userId |-> Me, accountId |-> 1, forecastId |-> 2,
                   recurringPatternId |-> Null, isManual |-> TRUE,
                   amount |-> 900, date |-> UtcNoon(1), name |-> "gift"]}
        ProjStarts == 0..(2 * TicksPerDay - 1)
        ProjEnds == ((MaxProjDay - 1) * TicksPerDay)..((MaxProjDay + 1) * TicksPerDay - 1)
    IN
    /\ now \in 0..(2 * TicksPerDay - 1)
    /\ patterns = {}
    /\ transactions = {}
    /\ accessToken = NoAccessToken
    /\ feed = <<>>
    /\ forecasts = {}
    /\ ftx \in SUBSET ProjRows
    /\ sess = [s \in Sessions |-> IdleSess]
    /\ results = <<>>
    /\ completed = 0
    /\ changes = 0
    /\ others = 0
    /\ edited = {}
    /\ pure \in {[op |-> "projection", done |-> FALSE, startDate |-> ps,
                  endDate |-> pe, initialBalance |-> 2000, out |-> <<>>] :
                     ps \in ProjStarts, pe \in ProjEnds}

ApplyProjectBalance ==
    /\ pure.op = "projection"
    /\ ~pure.done
    /\ pure' = [pure EXCEPT !.done = TRUE,
                            !.out = projectBalance(ftx, Me, 1, 1, pure.initialBalance,
                                                   pure.startDate, pure.endDate)]
    /\ UNCHANGED <<now, store, feed, sess, results, completed, changes, others, edited>>

SpecProj == InitProj /\ [][ApplyProjectBalance]_vars

\* ------------------------------------------------------------ generation from signed patterns

\* the clock of the generation runs goes this many ticks
MaxNow == 3

MaxGenCalls == 2

InitGen ==
    LET \* update-pattern stores any amount it is sent, so a stored amount has either
        \* sign; transactionType is either of the two; 2000 is the account's balance
        GenPatternAmounts == {201, 0 - 201, 2000}
        GenPatternSets ==
            {{[PatternDaily EXCEPT !.amount = a, !.transactionType = t],
              [PatternWeekly EXCEPT !.amount = a], PatternOther} :
                a \in GenPatternAmounts, t \in {"expense", "income"}}
    IN
    /\ now = 0
    /\ patterns \in GenPatternSets
    /\ transactions = {}
    /\ accessToken = NoAccessToken
    /\ feed = <<>>
    /\ forecasts = {}
    /\ ftx = {}
    /\ sess = [s \in Sessions |-> IdleSess]
    /\ results = <<>>
    /\ completed = 0
    /\ changes = 0
    /\ others = 0
    /\ edited = {}
    /\ pure = IdlePure

\* time passes while a call runs: new Date() in generateForecast and in
\* isDateAfterToday are read at different moments
ClockTick ==
    /\ now < MaxNow
    /\ now' = now + 1
    /\ UNCHANGED <<store, feed, sess, results, completed, changes, others, edited, pure>>

NextGen ==
    \/ GenerateForecastIn({1}, MaxGenCalls, {1}, EndDates, {{}})
    \/ ClockTick

SpecGen == InitGen /\ [][NextGen]_vars

\* ------------------------------------------------------------ forecast transaction requests

\* requests that edit, delete or create forecast transactions in a run
MaxRouteCalls == 2

\* generateForecast calls in a run of the forecast transaction requests
MaxRouteGenCalls == 2

\* the last forecast transaction request served and its answer
RouteAnswer(route, status, accountId, forecastId) ==
    [op |-> "route", done |-> TRUE, route |-> route, status |-> status,
     accountId |-> accountId, forecastId |-> forecastId, seq |-> changes + 1]

\* the foreign keys of a new ForecastTransaction row resolve: accountId to an
\* account of any user, forecastId to a stored forecast
ReferencesResolve(accountId, forecastId) ==
    /\ FindAccountAnyUser(Me, accountId) # {}
    /\ \E f \in forecasts : f.id = forecastId

\* POST /transactions/manual without isRecurring: accountId and forecastId
\* are only required to be present; the row is created with the requester's
\* userId, and the forecast is left as it is. An unresolved foreign key makes
\* the create throw: status 500, nothing written
PostManualTransaction(forecastId, accountId, amount, date) ==
    /\ changes < MaxRouteCalls
    /\ IF ReferencesResolve(accountId, forecastId)
       THEN /\ ftx' = ftx \cup
                 {[id |-> NewRowId(0, 0, DateStr(date), {r.id : r \in ftx}),
                   userId |-> Me, accountId |-> accountId,
                   forecastId |-> forecastId, recurringPatternId |-> Null,
                   isManual |-> TRUE, amount |-> amount, date |-> date,
                   name |-> "gift"]}
            /\ pure' = RouteAnswer("manual", 200, accountId, forecastId)
       ELSE /\ ftx' = ftx
            /\ pure' = RouteAnswer("manual", 500, accountId, forecastId)
    /\ changes' = changes + 1
    /\ UNCHANGED <<now, patterns, transactions, accessToken, feed, forecasts, sess, results, completed,
                   others, edited>>

\* DELETE /transactions/:id: findFirst({ id, userId }), 404 without a row,
\* else the row is deleted; the forecast is left as it is
DeleteForecastTransaction(id) ==
    /\ changes < MaxRouteCalls
    /\ TransactionRowFree(id)
    /\ LET found == {r \in ftx : r.id = id /\ r.userId = Me}
       IN  IF found = {}
           THEN /\ ftx' = ftx
                /\ pure' = RouteAnswer("delete", 404, Null, Null)
           ELSE /\ ftx' = ftx \ found
                /\ pure' = RouteAnswer("delete", 200,
                                       (CHOOSE r \in found : TRUE).accountId,
                                       (CHOOSE r \in found : TRUE).forecastId)
    /\ changes' = changes + 1
    /\ UNCHANGED <<now, patterns, transactions, accessToken, feed, forecasts, sess, results, completed,
                   others, edited>>

\* the forecast ids a request may name: 1 is the id of the requester's
\* forecast once generated, 9 the id of no forecast
RouteForecastIds == {1, 9}

\* a delete request names a stored row's id, or an id of no row
NextRoutes ==
    \/ GenerateForecastIn({1}, MaxRouteGenCalls, {1}, {UtcNoon(MaxEndDay)}, {{}})
    \/ EditTransaction
    \/ \E id \in ({r.id : r \in ftx} \cup {<<9, 9, 9, 9>>}) :
          DeleteForecastTransaction(id)
    \/ \E f \in RouteForecastIds, a \in AccountIds, m \in ManualAmounts,
          d \in {UtcNoon(1), UtcNoon(MaxEndDay)} :
          PostManualTransaction(f, a, m, d)

SpecRoutes == Init /\ [][NextRoutes]_vars

\* ------------------------------------------------------------ recurring detector

LowerChars ==
    <<"a", "b", "c", "d", "e", "f", "g", "h", "i", "j", "k", "l", "m",
      "n", "o", "p", "q", "r", "s", "t", "u", "v", "w", "x", "y", "z">>

SpaceChars == {" ", "\t"}

\* String.prototype.toLowerCase, one character
ToLowerChar(c) ==
    LET \* a name is a sequence of characters
        UpperChars ==
            <<"A", "B", "C", "D", "E", "F", "G", "H", "I", "J", "K", "L", "M",
              "N", "O", "P", "Q", "R", "S", "T", "U", "V", "W", "X", "Y", "Z">>
    IN
    IF \E i \in 1..Len(UpperChars) : UpperChars[i] = c
    THEN LowerChars[CHOOSE i \in 1..Len(UpperChars) : UpperChars[i] = c]
    ELSE c

\* .trim()
RECURSIVE TrimStart(_)
TrimStart(str) ==
    IF str # <<>> /\ Head(str) \in SpaceChars THEN TrimStart(Tail(str)) ELSE str

RECURSIVE TrimEnd(_)
TrimEnd(str) ==
    IF str # <<>> /\ str[Len(str)] \in SpaceChars
    THEN TrimEnd(SubSeq(str, 1, Len(str) - 1)) ELSE str

normalizeMerchantName(name) ==
    LET DigitChars == {"0", "1", "2", "3", "4", "5", "6", "7", "8", "9"}
        \* .replace(/\s+/g, ' '): each run of whitespace becomes one space
        RECURSIVE CollapseSpaces(_, _)
        CollapseSpaces(str, inRun) ==
            IF str = <<>> THEN <<>>
            ELSE IF Head(str) \in SpaceChars
                 THEN (IF inRun THEN <<>> ELSE <<" ">>) \o CollapseSpaces(Tail(str), TRUE)
                 ELSE <<Head(str)>> \o CollapseSpaces(Tail(str), FALSE)
        \* .replace(/[^a-z0-9\s]/g, '')
        KeepAlnumSpace(str) ==
            SelectSeq(str, LAMBDA c : \/ \E i \in 1..Len(LowerChars) : LowerChars[i] = c
                                      \/ c \in DigitChars
                                      \/ c \in SpaceChars)
    IN
    TrimEnd(TrimStart(KeepAlnumSpace(CollapseSpaces(
        [i \in 1..Len(name) |-> ToLowerChar(name[i])], FALSE))))

\* a || b on strings: the empty string and null are both falsy, and both are
\* written <<>>
OrElse(a, b) == IF a = <<>> THEN b ELSE a

\* amountsSimilar(group.averageAmount, amount) with averageAmount = total / count:
\* |total/count - amount| <= ((total/count + amount) / 2) * 0.10, cleared of
\* its denominators; amount and total are absolute values
amountsSimilar(total, count, amount) ==
    IF total + count * amount = 0 THEN TRUE
    ELSE 20 * Abs(total - count * amount) <= total + count * amount

\* confidences are kept in thousandths
ConfScale == 1000

Sqrt(x) ==
    LET \* the integer square root, by bisection
        RECURSIVE SqrtBetween(_, _, _)
        SqrtBetween(x0, lo, hi) ==
            IF lo >= hi THEN lo
            ELSE LET mid == (lo + hi + 1) \div 2
                 IN  IF mid * mid <= x0 THEN SqrtBetween(x0, mid, hi)
                     ELSE SqrtBetween(x0, lo, mid - 1)
    IN  SqrtBetween(x, 0, 46340)

\* [...transactions].sort(by date).map(t => new Date(t.date))
RECURSIVE SortedDates(_)
SortedDates(txs) ==
    LET \* insertion of a date into a sorted sequence, after the dates equal to it
        RECURSIVE InsertDate(_, _)
        InsertDate(sorted, d) ==
            IF sorted = <<>> THEN <<d>>
            ELSE IF d < Head(sorted) THEN <<d>> \o sorted
                 ELSE <<Head(sorted)>> \o InsertDate(Tail(sorted), d)
    IN
    IF txs = <<>> THEN <<>>
    ELSE InsertDate(SortedDates(SubSeq(txs, 1, Len(txs) - 1)), txs[Len(txs)].date)

RECURSIVE SumSeq(_)
SumSeq(q) == IF q = <<>> THEN 0 ELSE Head(q) + SumSeq(Tail(q))

\* the buckets with the monthly one taken as 30 to 35 days
BucketsMonthlyFromThirty ==
    <<[frequency |-> "daily", low |-> 1, high |-> 2, ref |-> 0, phase |-> "none", minOccurrences |-> 2],
      [frequency |-> "weekly", low |-> 5, high |-> 9, ref |-> 7, phase |-> "dayOfWeek", minOccurrences |-> 2],
      [frequency |-> "biweekly", low |-> 11, high |-> 17, ref |-> 14, phase |-> "dayOfWeek", minOccurrences |-> 2],
      [frequency |-> "monthly", low |-> 30, high |-> 35, ref |-> 30, phase |-> "dayOfMonth", minOccurrences |-> 3],
      [frequency |-> "quarterly", low |-> 80, high |-> 100, ref |-> 90, phase |-> "dayOfMonth", minOccurrences |-> 3],
      [frequency |-> "yearly", low |-> 350, high |-> 380, ref |-> 365, phase |-> "dayOfMonth", minOccurrences |-> 2]>>

\* the frequency buckets: name, bounds of the average interval in days, the
\* reference interval of the confidence (0: the average itself), the phase
\* field read from the first date, and minOccurrences
Buckets ==
    <<[frequency |-> "daily", low |-> 1, high |-> 2, ref |-> 0, phase |-> "none", minOccurrences |-> 2],
      [frequency |-> "weekly", low |-> 5, high |-> 9, ref |-> 7, phase |-> "dayOfWeek", minOccurrences |-> 2],
      [frequency |-> "biweekly", low |-> 11, high |-> 17, ref |-> 14, phase |-> "dayOfWeek", minOccurrences |-> 2],
      [frequency |-> "monthly", low |-> 25, high |-> 35, ref |-> 30, phase |-> "dayOfMonth", minOccurrences |-> 3],
      [frequency |-> "quarterly", low |-> 80, high |-> 100, ref |-> 90, phase |-> "dayOfMonth", minOccurrences |-> 3],
      [frequency |-> "yearly", low |-> 350, high |-> 380, ref |-> 365, phase |-> "dayOfMonth", minOccurrences |-> 2]>>

\* the statistics of the intervals between consecutive dates, in ticks:
\* count k, sum S (avgInterval = S / (k * TicksPerDay) days) and
\* Q = sum of (k * interval - S)^2 (stdDev = sqrt(Q / k) / (k * TicksPerDay) days)
IntervalStats(dates) ==
    LET k == Len(dates) - 1
        intervals == [i \in 1..k |-> dates[i + 1] - dates[i]]
        S == SumSeq(intervals)
    IN  [k |-> k, S |-> S,
         Q |-> SumSeq([i \in 1..k |-> (k * intervals[i] - S) * (k * intervals[i] - S)])]

\* the bucket avgInterval falls in, 0 if none
BucketOf(st) ==
    LET fits == {b \in 1..Len(Buckets) :
                    /\ st.S >= Buckets[b].low * st.k * TicksPerDay
                    /\ st.S <= Buckets[b].high * st.k * TicksPerDay}
    IN  IF fits = {} THEN 0 ELSE CHOOSE b \in fits : \A c \in fits : b <= c

\* stdDev / avgInterval in every bucket
DeviationRatioByMean(st, ref) ==
    (ConfScale * Sqrt((100 * 100 * st.Q) \div st.k)) \div (100 * st.S)

\* stdDev / reference interval, in thousandths; the square root is taken to
\* two decimal places
DeviationRatio(st, ref) ==
    LET sd == Sqrt((100 * 100 * st.Q) \div st.k)
    IN  IF ref = 0 THEN (ConfScale * sd) \div (100 * st.S)
        ELSE (ConfScale * sd) \div (100 * st.k * TicksPerDay * ref)

\* confidence = min(1, max(0, 1 - stdDev / ref) * 0.7 + occurrenceBonus * 0.3)
Confidence(st, bucket, n) ==
    LET Min(a, b) == IF a < b THEN a ELSE b
        Max(a, b) == IF a > b THEN a ELSE b
    IN
    LET base == Max(0, ConfScale - DeviationRatio(st, bucket.ref))
        occurrenceBonus == Min(ConfScale, (ConfScale * (n - bucket.minOccurrences)) \div 5)
    IN  Min(ConfScale, (7 * base + 3 * occurrenceBonus) \div 10)

\* what stands for analyzeFrequency's null
NoFrequency ==
    [frequency |-> "none", dayOfMonth |-> Null, dayOfWeek |-> Null,
     confidence |-> 0, startDate |-> Null]

\* analyzeFrequency up to the confidence threshold: null when there are fewer
\* than 3 transactions or no bucket fits
FrequencyOf(txs) ==
    IF Len(txs) < 3 THEN NoFrequency
    ELSE LET dates == SortedDates(txs)
             st == IntervalStats(dates)
             b == BucketOf(st)
         IN  IF b = 0 THEN NoFrequency
             ELSE [frequency |-> Buckets[b].frequency,
                   dayOfMonth |-> IF Buckets[b].phase = "dayOfMonth"
                                  THEN GetDate(dates[1]) ELSE Null,
                   dayOfWeek |-> IF Buckets[b].phase = "dayOfWeek"
                                 THEN GetDay(dates[1]) ELSE Null,
                   confidence |-> Confidence(st, Buckets[b], Len(txs)),
                   startDate |-> dates[1]]

\* analyzeFrequency without its minimum confidence threshold
analyzeFrequencyNoFloor(txs) == FrequencyOf(txs)

\* analyzeFrequency: below 0.6 there is no pattern
analyzeFrequency(txs) ==
    LET a == FrequencyOf(txs)
    IN  IF a.confidence < (6 * ConfScale) \div 10 THEN NoFrequency ELSE a

Fraction(a, b) ==
    LET \* a / b in lowest terms, as <<numerator, denominator>>
        RECURSIVE Gcd(_, _)
        Gcd(a0, b0) == IF b0 = 0 THEN a0 ELSE Gcd(b0, a0 % b0)
    IN
    LET g == Gcd(Abs(a), Abs(b))
    IN  IF g = 0 THEN <<0, 1>> ELSE <<a \div g, b \div g>>

\* groupTransactions: the groups in insertion order; averageAmount is
\* total / Len(transactions)
RECURSIVE groupTransactions(_, _)
groupTransactions(txs, groups) ==
    LET \* groups.set(groupKey, group): a new key is appended, a known key keeps its
        \* place and takes the new group
        SetGroup(groups0, group) ==
            IF \E i \in 1..Len(groups0) : groups0[i].key = group.key
            THEN [i \in 1..Len(groups0) |->
                     IF groups0[i].key = group.key THEN group ELSE groups0[i]]
            ELSE Append(groups0, group)
    IN
    IF txs = <<>> THEN groups
    ELSE LET transaction == Head(txs)
             normalizedName ==
                 normalizeMerchantName(
                     OrElse(transaction.name, OrElse(transaction.merchantName, <<>>)))
             merchantName == OrElse(transaction.merchantName, OrElse(transaction.name, <<>>))
             amount == Abs(transaction.amount)
             matches == {i \in 1..Len(groups) :
                            /\ normalizeMerchantName(groups[i].name) = normalizedName
                            /\ amountsSimilar(groups[i].total,
                                              Len(groups[i].transactions), amount)}
         IN  IF matches # {}
             THEN LET m == CHOOSE i \in matches : \A j \in matches : i <= j
                  IN  groupTransactions(Tail(txs),
                          [groups EXCEPT ![m].transactions = Append(@, transaction),
                                         ![m].total = @ + amount])
             ELSE groupTransactions(Tail(txs),
                      SetGroup(groups,
                          [key |-> <<normalizedName, RoundCents(amount)>>,
                           name |-> OrElse(transaction.name, merchantName),
                           merchantName |-> merchantName,
                           transactions |-> <<transaction>>,
                           total |-> amount,
                           amountVariance |-> Fraction(amount, 10)]))

\* determineTransactionType
determineTransactionType(txs) ==
    LET positiveCount == Cardinality({i \in 1..Len(txs) : txs[i].amount > 0})
        negativeCount == Cardinality({i \in 1..Len(txs) : txs[i].amount < 0})
    IN  IF positiveCount > negativeCount THEN "income" ELSE "expense"

\* prisma.transaction.findMany({ where: { userId, accountId }, orderBy: { date: 'asc' } }):
\* the orders the database may return the rows in; rows of equal date come in
\* any order
RECURSIVE DateOrders(_)
DateOrders(rows) ==
    IF rows = {} THEN {<<>>}
    ELSE UNION {{<<t>> \o rest : rest \in DateOrders(rows \ {t})} :
                   t \in {x \in rows : \A y \in rows : x.date <= y.date}}

\* the loop of detectPatterns over the groups: the patterns it creates, in order
RECURSIVE DetectedPatterns(_, _, _, _, _, _)
DetectedPatterns(groups, userId, accountId, minConfidence, run, acc) ==
    LET \* x || null on a number: 0 is falsy
        OrNull(x) == IF x = 0 THEN Null ELSE x
    IN
    IF groups = <<>> THEN acc
    ELSE LET group == Head(groups)
             frequencyAnalysis == analyzeFrequency(group.transactions)
             rest == Tail(groups)
         IN  IF Len(group.transactions) < 3
             THEN DetectedPatterns(rest, userId, accountId, minConfidence, run, acc)
             ELSE IF frequencyAnalysis.frequency = "none"
             THEN DetectedPatterns(rest, userId, accountId, minConfidence, run, acc)
             ELSE IF frequencyAnalysis.confidence < minConfidence
             THEN DetectedPatterns(rest, userId, accountId, minConfidence, run, acc)
             ELSE DetectedPatterns(rest, userId, accountId, minConfidence, run,
                      Append(acc,
                          [id |-> <<run, Len(acc) + 1>>,
                           userId |-> userId,
                           accountId |-> accountId,
                           name |-> group.name,
                           merchantName |-> normalizeMerchantName(group.merchantName),
                           amount |-> Fraction(group.total, Len(group.transactions)),
                           amountVariance |-> group.amountVariance,
                           frequency |-> frequencyAnalysis.frequency,
                           dayOfMonth |-> OrNull(frequencyAnalysis.dayOfMonth),
                           dayOfWeek |-> OrNull(frequencyAnalysis.dayOfWeek),
                           startDate |-> frequencyAnalysis.startDate,
                           endDate |-> Null,
                           transactionType |-> determineTransactionType(group.transactions),
                           confidence |-> frequencyAnalysis.confidence]))

\* detectPatterns on the rows as the database returned them
detectPatterns(ordered, userId, accountId, minConfidence, run) ==
    IF Len(ordered) < 3 THEN <<>>
    ELSE DetectedPatterns(groupTransactions(ordered, <<>>), userId, accountId,
                          minConfidence, run, <<>>)

\* ------------------------------------------------------------ detection requests

MaxDetectCalls == 2

\* the longest run of consecutive months in the stored history
MaxMonths == 4

Netflix == <<"N", "e", "t", "f", "l", "i", "x">>

Gym == <<"G", "y", "m", " ", " ", "#", "1">>

Pay == <<"P", "a", "y">>

\* Transaction rows of one name and amount on the given dates
Series(base, userId, accountId, name, amount, dates) ==
    {[id |-> base + i, userId |-> userId, accountId |-> accountId, name |-> name,
      merchantName |-> <<>>, amount |-> amount, date |-> dates[i]] :
        i \in 1..Len(dates)}

\* three charges 1 and 3 days apart, and a salary on three Sundays
IrregularAndSunday ==
    Series(0, Me, 1, Gym, 0 - 500, <<UtcNoon(0), UtcNoon(1), UtcNoon(4)>>)
        \cup Series(10, Me, 1, Pay, 80000, <<UtcNoon(3), UtcNoon(10), UtcNoon(17)>>)

\* patterns the store holds before any detection: one created by hand for
\* account 1, one of another user's account
HandMadePattern ==
    [id |-> <<0, 0>>, userId |-> Me, accountId |-> 1, name |-> Pay,
     merchantName |-> normalizeMerchantName(Pay), amount |-> Fraction(80000, 1),
     amountVariance |-> Fraction(80000, 10), frequency |-> "monthly",
     dayOfMonth |-> 5, dayOfWeek |-> Null, startDate |-> UtcNoon(4), endDate |-> Null,
     transactionType |-> "income", confidence |-> (9 * ConfScale) \div 10]

StrangerPattern ==
    [HandMadePattern EXCEPT !.id = <<0, 0 - 1>>, !.userId = 2, !.accountId = 2]

InitDetect ==
    LET NetflixUpper == <<"N", "E", "T", "F", "L", "I", "X">>
        \* -15.99 on day d of n consecutive months from month m0 of 2026
        MonthlySeries(d, n, m0) ==
            Series(0, Me, 1, Netflix, 0 - 3198, [i \in 1..n |-> UtcNoon(MakeDay(0, m0 + i - 1, d))])
        \* a charge on each of seven days, and another user's history
        SevenDays ==
            Series(0, Me, 1, Gym, 0 - 500, [i \in 1..7 |-> UtcNoon(i - 1)])
                \cup Series(20, 2, 2, Pay, 80000, <<UtcNoon(3), UtcNoon(10), UtcNoon(17)>>)
        \* a weekly charge whose first day has two rows, spelled differently
        SameDayTwice ==
            Series(0, Me, 1, Netflix, 0 - 3198, [i \in 1..6 |-> UtcNoon(7 * (i - 1))])
                \cup Series(6, Me, 1, NetflixUpper, 0 - 3198, <<UtcNoon(0)>>)
        Histories ==
            {MonthlySeries(d, n, m0) : d \in {1, 15, 28}, n \in 3..MaxMonths, m0 \in {0, 1, 10}}
                \cup {IrregularAndSunday, SevenDays, SameDayTwice}
    IN
    /\ now = 0
    /\ patterns = {HandMadePattern, StrangerPattern}
    /\ transactions \in Histories
    /\ accessToken = NoAccessToken
    /\ feed = <<>>
    /\ forecasts = {}
    /\ ftx = {}
    /\ sess = [s \in Sessions |-> IdleSess]
    /\ results = <<>>
    /\ completed = 0
    /\ changes = 0
    /\ others = 0
    /\ edited = {}
    /\ pure = IdlePure

\* the set of elements of a sequence
Range(q) == {q[i] : i \in 1..Len(q)}

\* deleteMany with no where clause
DeleteManyPatternsAll(rows, userId, accountId) == {}

\* prisma.recurringPattern.deleteMany({ where: { userId, accountId } }): the
\* rows that stay
DeleteManyPatterns(rows, userId, accountId) ==
    {p \in rows : ~(p.userId = userId /\ p.accountId = accountId)}

\* forecast_transactions.recurringPatternId is ON DELETE SET NULL
AfterPatternDelete(rows, kept) ==
    {IF r.recurringPatternId # Null /\ ~ \E p \in kept : p.id = r.recurringPatternId
     THEN [r EXCEPT !.recurringPatternId = Null] ELSE r : r \in rows}

\* what a detection request returned
DetectResult(op, accountId, minConfidence, found) ==
    [op |-> op, accountId |-> accountId, minConfidence |-> minConfidence,
     patterns |-> found, seq |-> completed + 1]

\* the detection both routes end in: findMany in some date order, then one
\* create per pattern found
RunDetection(op, kept, accountId, minConfidence) ==
    \E ordered \in DateOrders({t \in transactions :
                                  t.userId = Me /\ t.accountId = accountId}) :
        LET found == detectPatterns(ordered, Me, accountId, minConfidence, completed + 1)
        IN  /\ patterns' = kept \cup Range(found)
            /\ results' = Record(DetectResult(op, accountId, minConfidence, found))

\* minConfidence || 0.6
OrDefaultConfidence(minConfidence) ==
    IF minConfidence = 0 THEN (6 * ConfScale) \div 10 ELSE minConfidence

\* POST /detect of the pattern routes: redetectPatterns, which deletes the
\* account's patterns and then detects
RedetectRequest(accountId, minConfidence) ==
    /\ completed < MaxDetectCalls
    /\ LET kept == DeleteManyPatterns(patterns, Me, accountId)
       IN  /\ ftx' = AfterPatternDelete(ftx, kept)
           /\ RunDetection("redetect", kept, accountId,
                           OrDefaultConfidence(minConfidence))
    /\ completed' = completed + 1
    /\ UNCHANGED <<now, transactions, accessToken, feed, forecasts, sess, changes, others, edited, pure>>

\* POST /detect of the other router: detectPatterns alone
DetectRequest(accountId, minConfidence) ==
    /\ completed < MaxDetectCalls
    /\ RunDetection("detect", patterns, accountId, OrDefaultConfidence(minConfidence))
    /\ completed' = completed + 1
    /\ UNCHANGED <<now, transactions, accessToken, feed, forecasts, ftx, sess, changes, others, edited, pure>>

\* minConfidence as a request sends it, in thousandths: absent (0), 0.3, 0.9
NextDetect ==
    \E a \in {1, 2}, m \in {0, 300, 900} :
        \/ RedetectRequest(a, m)
        \/ DetectRequest(a, m)

SpecDetect == InitDetect /\ [][NextDetect]_vars

\* ------------------------------------------------------------ analyzeFrequency alone

\* the largest group analysed
MaxGroupSize == 7

InitConf ==
    LET \* group sizes, and the intervals in days between consecutive transactions
        GroupSizes == {4, MaxGroupSize}
        IntervalDays == {{1, 2, 3}, {5, 7, 9}}
        \* the interval lists of n - 1 intervals, shortest first (their order does not
        \* enter the statistics)
        IntervalLists(n) ==
            UNION {{q \in [1..(n - 1) -> V] : \A i \in 1..(n - 2) : q[i] <= q[i + 1]} :
                      V \in IntervalDays}
        \* transactions at noon, the given numbers of days apart
        RECURSIVE Spaced(_, _)
        Spaced(first, intervals) ==
            IF intervals = <<>> THEN <<[date |-> first]>>
            ELSE <<[date |-> first]>> \o Spaced(AddDays(first, Head(intervals)), Tail(intervals))
    IN
    /\ now = 0
    /\ patterns = {}
    /\ transactions = {}
    /\ accessToken = NoAccessToken
    /\ feed = <<>>
    /\ forecasts = {}
    /\ ftx = {}
    /\ sess = [s \in Sessions |-> IdleSess]
    /\ results = <<>>
    /\ completed = 0
    /\ changes = 0
    /\ others = 0
    /\ edited = {}
    /\ pure \in UNION {{[op |-> "confidence", done |-> FALSE,
                         one |-> Spaced(UtcNoon(0), a), other |-> Spaced(UtcNoon(0), b),
                         outOne |-> NoFrequency, outOther |-> NoFrequency] :
                            a \in IntervalLists(n), b \in IntervalLists(n)} :
                       n \in GroupSizes}

ApplyAnalyzeFrequency ==
    /\ pure.op = "confidence"
    /\ ~pure.done
    /\ pure' = [pure EXCEPT !.done = TRUE,
                            !.outOne = analyzeFrequency(pure.one),
                            !.outOther = analyzeFrequency(pure.other)]
    /\ UNCHANGED <<now, store, feed, sess, results, completed, changes, others, edited>>

SpecConf == InitConf /\ [][ApplyAnalyzeFrequency]_vars

\* ------------------------------------------------------------ redetection step by step

\* redetectPatterns calls in a run of concurrent handlers
MaxRedetectCalls == 2

\* a handler that runs no redetectPatterns call
IdleRedetect ==
    [pc |-> "idle", accountId |-> Null, minConfidence |-> 0, run |-> 0,
     toCreate |-> <<>>, found |-> <<>>]

InitRedetect ==
    LET \* a weekly charge and a weekly salary, three rows each, all of distinct dates
        RedetectHistory ==
            Series(0, Me, 1, Netflix, 0 - 3198, <<UtcNoon(0), UtcNoon(7), UtcNoon(14)>>)
                \cup Series(10, Me, 1, Pay, 80000, <<UtcNoon(3), UtcNoon(10), UtcNoon(17)>>)
    IN
    /\ now = 0
    /\ patterns = {HandMadePattern, StrangerPattern}
    /\ transactions = RedetectHistory
    /\ accessToken = NoAccessToken
    /\ feed = <<>>
    /\ forecasts = {}
    /\ ftx = {}
    /\ sess = [s \in Sessions |-> IdleRedetect]
    /\ results = <<>>
    /\ completed = 0
    /\ changes = 0
    /\ others = 0
    /\ edited = {}
    /\ pure = IdlePure

\* redetectPatterns, first await: the deleteMany, which takes effect at once
\* (no transaction is opened); `others` counts the calls started
RedetectDelete(s, accountId, minConfidence) ==
    /\ sess[s].pc = "idle"
    /\ others < MaxRedetectCalls
    /\ LET kept == DeleteManyPatterns(patterns, Me, accountId)
       IN  /\ patterns' = kept
           /\ ftx' = AfterPatternDelete(ftx, kept)
    /\ sess' = [sess EXCEPT ![s] =
           [IdleRedetect EXCEPT !.pc = "find", !.accountId = accountId,
                                !.minConfidence = OrDefaultConfidence(minConfidence),
                                !.run = others + 1]]
    /\ others' = others + 1
    /\ UNCHANGED <<now, transactions, accessToken, feed, forecasts, results, completed, changes, edited, pure>>

\* detectPatterns, first await: transaction.findMany; grouping and analysis
\* are computed from the rows read
RedetectFind(s) ==
    /\ sess[s].pc = "find"
    /\ \E ordered \in DateOrders({t \in transactions :
                                     t.userId = Me /\ t.accountId = sess[s].accountId}) :
          LET found == detectPatterns(ordered, Me, sess[s].accountId,
                                      sess[s].minConfidence, sess[s].run)
          IN  sess' = [sess EXCEPT ![s].pc = "create", ![s].toCreate = found,
                                   ![s].found = found]
    /\ UNCHANGED <<now, store, feed, results, completed, changes, others, edited, pure>>

\* detectPatterns, one await of the loop: recurringPattern.create
RedetectCreate(s) ==
    /\ sess[s].pc = "create"
    /\ sess[s].toCreate # <<>>
    /\ patterns' = patterns \cup {Head(sess[s].toCreate)}
    /\ sess' = [sess EXCEPT ![s].toCreate = Tail(@)]
    /\ UNCHANGED <<now, transactions, accessToken, feed, forecasts, ftx, results, completed, changes,
                   others, edited, pure>>

\* the call returns the patterns it created
RedetectReturn(s) ==
    /\ sess[s].pc = "create"
    /\ sess[s].toCreate = <<>>
    /\ results' = Record(DetectResult("redetect", sess[s].accountId,
                                      sess[s].minConfidence, sess[s].found))
    /\ completed' = completed + 1
    /\ sess' = [sess EXCEPT ![s] = IdleRedetect]
    /\ UNCHANGED <<now, store, feed, changes, others, edited, pure>>

\* findMany or a create throws: the route answers 500; what was deleted and
\* created so far stays
RedetectFail(s) ==
    /\ sess[s].pc \in {"find", "create"}
    /\ sess[s].toCreate # <<>> \/ sess[s].pc = "find"
    /\ results' = Record(DetectResult("redetect-failed", sess[s].accountId,
                                      sess[s].minConfidence, <<>>))
    /\ completed' = completed + 1
    /\ sess' = [sess EXCEPT ![s] = IdleRedetect]
    /\ UNCHANGED <<now, store, feed, changes, others, edited, pure>>

NextRedetect ==
    \E s \in Sessions :
        \/ \E m \in {0, 300} : RedetectDelete(s, 1, m)
        \/ RedetectFind(s)
        \/ RedetectCreate(s)
        \/ RedetectReturn(s)
        \/ RedetectFail(s)

SpecRedetect == InitRedetect /\ [][NextRedetect]_vars

\* ------------------------------------------------------------ pattern requests

\* pattern requests in a run
MaxPatternCalls == 2

\* the day the pattern requests are made on (20 July 2026)
PatternsToday == 200

\* the store after the user's first generateForecast, made before any pattern
\* existed: one forecast, no forecast transactions
InitPatterns ==
    LET \* Transaction rows: an expense and an income of the requesting user, and an
        \* expense of another user
        PatternTransactions ==
            { [id |-> 1, userId |-> 1, accountId |-> 1, name |-> Gym, merchantName |-> <<>>,
               amount |-> 0 - 3198, date |-> UtcNoon(PatternsToday - 10)],
              [id |-> 2, userId |-> 1, accountId |-> 1, name |-> Pay, merchantName |-> <<>>,
               amount |-> 500000, date |-> UtcNoon(PatternsToday - 5)],
              [id |-> 3, userId |-> 2, accountId |-> 2, name |-> Gym, merchantName |-> <<>>,
               amount |-> 0 - 3198, date |-> UtcNoon(PatternsToday - 10)] }
    IN
    /\ now = UtcNoon(PatternsToday)
    /\ patterns = {}
    /\ transactions = PatternTransactions
    /\ accessToken = NoAccessToken
    /\ feed = <<>>
    /\ forecasts = {[id |-> 1, userId |-> 1, accountId |-> 1,
                     startDate |-> UtcNoon(PatternsToday - 1),
                     endDate |-> UtcNoon(PatternsToday + 2),
                     initialBalance |-> 2000, projectedBalance |-> 2000,
                     createdAt |-> 0]}
    /\ ftx = {}
    /\ sess = [s \in Sessions |-> IdleSess]
    /\ results = <<>>
    /\ completed = 0
    /\ changes = 0
    /\ others = 0
    /\ edited = {}
    /\ pure = IdlePure

\* the id of the next RecurringPattern row
NewPatternId == changes + 1

\* the answer of a pattern request
PatternAnswer(route, status) ==
    [op |-> "route", done |-> TRUE, route |-> route, status |-> status,
     accountId |-> Null, forecastId |-> Null, seq |-> changes + 1]

\* a request value is truthy: present and not 0
Truthy(x) == x # Null /\ x # 0

\* x || null on a request value that may be absent
OrNullValue(x) == IF Truthy(x) THEN x ELSE Null

\* POST /patterns/create-from-transaction: the transaction is looked up with
\* the requester's userId; the type follows the transaction's sign; a given
\* amount is stored with the sign of the type, else the transaction's amount
\* as it is; dayOfMonth and dayOfWeek are stored as sent
CreatePatternFromTransaction(transactionId, frequency, dayOfMonth, dayOfWeek, amount) ==
    /\ changes < MaxPatternCalls
    /\ LET found == {t \in transactions : t.id = transactionId /\ t.userId = Me}
       IN  IF found = {}
           THEN /\ patterns' = patterns
                /\ pure' = PatternAnswer("create-from-transaction", 404)
           ELSE LET transaction == CHOOSE t \in found : TRUE
                    transactionType == IF transaction.amount > 0 THEN "income"
                                       ELSE "expense"
                    patternAmount ==
                        IF Truthy(amount)
                        THEN (IF transactionType = "expense" THEN 0 - Abs(amount)
                              ELSE Abs(amount))
                        ELSE transaction.amount
                IN  /\ patterns' = patterns \cup
                          {[id |-> NewPatternId, userId |-> Me,
                            accountId |-> transaction.accountId,
                            name |-> OrElse(transaction.name, transaction.merchantName),
                            merchantName |->
                                normalizeMerchantName(
                                    OrElse(transaction.merchantName, transaction.name)),
                            amount |-> patternAmount,
                            frequency |-> frequency,
                            dayOfMonth |-> OrNullValue(dayOfMonth),
                            dayOfWeek |-> OrNullValue(dayOfWeek),
                            startDate |-> transaction.date, endDate |-> Null,
                            transactionType |-> transactionType,
                            confidence |-> (9 * ConfScale) \div 10]}
                    /\ pure' = PatternAnswer("create-from-transaction", 200)
    /\ changes' = changes + 1
    /\ UNCHANGED <<now, transactions, accessToken, feed, forecasts, ftx, sess, results, completed,
                   others, edited>>

\* PUT /patterns/:id with { amount, frequency }: findFirst({ id, userId }),
\* 404 without a row; a sent amount is stored as it is, a truthy frequency too
UpdatePattern(id, amount, frequency) ==
    /\ changes < MaxPatternCalls
    /\ LET found == {p \in patterns : p.id = id /\ p.userId = Me}
       IN  IF found = {}
           THEN /\ patterns' = patterns
                /\ pure' = PatternAnswer("update-pattern", 404)
           ELSE /\ patterns' = (patterns \ found) \cup
                      {[p EXCEPT !.amount = IF amount # Null THEN amount ELSE @,
                                 !.frequency = IF frequency # "" THEN frequency ELSE @] :
                          p \in found}
                /\ pure' = PatternAnswer("update-pattern", 200)
    /\ changes' = changes + 1
    /\ UNCHANGED <<now, transactions, accessToken, feed, forecasts, ftx, sess, results, completed,
                   others, edited>>

\* DELETE /patterns/:id: findFirst({ id, userId }), 404 without a row; the
\* forecast transactions of the pattern keep existing with recurringPatternId
\* set to null (ON DELETE SET NULL)
DeletePattern(id) ==
    /\ changes < MaxPatternCalls
    /\ LET found == {p \in patterns : p.id = id /\ p.userId = Me}
       IN  IF found = {}
           THEN /\ UNCHANGED <<patterns, ftx>>
                /\ pure' = PatternAnswer("delete-pattern", 404)
           ELSE /\ patterns' = patterns \ found
                /\ ftx' = {IF r.recurringPatternId = id
                           THEN [r EXCEPT !.recurringPatternId = Null] ELSE r : r \in ftx}
                /\ pure' = PatternAnswer("delete-pattern", 200)
    /\ changes' = changes + 1
    /\ UNCHANGED <<now, transactions, accessToken, feed, forecasts, sess, results, completed, others, edited>>

\* POST /transactions/manual with isRecurring: the pattern is created first,
\* with Math.abs(amount), the type inferred from the amount's sign and the
\* phase field of the frequency's class; then the forecast transaction is
\* created, outside any database transaction: when its foreign keys do not
\* resolve the create throws (500) and the pattern stays
PostRecurringManualTransaction(forecastId, accountId, amount, date, frequency, dayOfMonth, dayOfWeek) ==
    /\ changes < MaxPatternCalls
    /\ IF ~Truthy(amount) \/ frequency = ""
       THEN /\ UNCHANGED <<patterns, ftx>>
            /\ pure' = PatternAnswer("manual", 400)
       ELSE /\ patterns' = patterns \cup
                  {[id |-> NewPatternId, userId |-> Me, accountId |-> accountId,
                    name |-> Gym, merchantName |-> normalizeMerchantName(Gym),
                    amount |-> Abs(amount),
                    frequency |-> frequency,
                    dayOfMonth |-> IF frequency \in {"monthly", "quarterly", "yearly"}
                                   THEN OrNullValue(dayOfMonth) ELSE Null,
                    dayOfWeek |-> IF frequency \in {"weekly", "biweekly"}
                                  THEN dayOfWeek ELSE Null,
                    startDate |-> date, endDate |-> Null,
                    transactionType |-> IF amount > 0 THEN "income" ELSE "expense",
                    confidence |-> (9 * ConfScale) \div 10]}
            /\ IF ReferencesResolve(accountId, forecastId)
               THEN /\ ftx' = ftx \cup
                         {[id |-> NewRowId(0, NewPatternId, DateStr(date),
                                           {r.id : r \in ftx}),
                           userId |-> Me, accountId |-> accountId,
                           forecastId |-> forecastId,
                           recurringPatternId |-> NewPatternId,
                           isManual |-> TRUE, amount |-> amount, date |-> date,
                           name |-> "gift"]}
                    /\ pure' = PatternAnswer("manual", 200)
               ELSE /\ ftx' = ftx
                    /\ pure' = PatternAnswer("manual", 500)
    /\ changes' = changes + 1
    /\ UNCHANGED <<now, transactions, accessToken, feed, forecasts, sess, results, completed, others, edited>>

\* generateForecast's use of a stored pattern: calculateNextOccurrences over
\* the window from now to the requested end
OccurrencesOfStoredPattern(p, endDate) ==
    /\ pure' = [op |-> "occurrences", done |-> TRUE, pattern |-> p,
                startDate |-> now, endDate |-> endDate,
                out |-> calculateNextOccurrences(p, now, endDate)]
    /\ UNCHANGED <<now, store, feed, sess, results, completed, changes, others, edited>>

\* what the pattern requests carry: the id of one of the three stored transactions
\* or of none (9), a frequency, day fields absent or set, an amount absent or set
NextPatterns ==
    \/ \E t \in {1, 2, 3, 9}, f \in {"weekly", "monthly"},
          dm \in {Null, 15, 0 - 31}, dw \in {Null, 5}, a \in {Null, 0 - 1000, 1000} :
          CreatePatternFromTransaction(t, f, dm, dw, a)
    \/ \E id \in 1..MaxPatternCalls, a \in {Null, 0 - 1000, 1000}, f \in {"", "daily"} :
          UpdatePattern(id, a, f)
    \/ \E id \in 1..MaxPatternCalls : DeletePattern(id)
    \/ \E fid \in RouteForecastIds, a \in ({Null, 0 - 1000, 1000} \ {Null}) \cup {0},
          f \in {"weekly", "monthly"}, dm \in {Null, 15, 0 - 31}, dw \in {Null, 5} :
          PostRecurringManualTransaction(fid, 1, a, UtcNoon(PatternsToday + 1), f, dm, dw)
    \/ \E p \in patterns, e \in {UtcNoon(PatternsToday + 2), UtcNoon(PatternsToday + 4)} :
          OccurrencesOfStoredPattern(p, e)

SpecPatterns == InitPatterns /\ [][NextPatterns]_vars

\* ------------------------------------------------------------ bank feed synchronisation

\* transactions the feed comes to hold in a run
MaxFeed == 2

\* syncAndPersistTransactions calls started in a run
MaxSyncCalls == 2

\* name edits by the user and renames by the feed in a run
MaxNameChanges == 2

\* the day the synchronisation runs are made on
SyncToday == 100

\* Account rows: accounts 1 and 4 are the requesting user's and belong to one
\* Plaid item (one access token); account 2 is another user's
SyncAccounts ==
    { [id |-> 1, userId |-> 1, plaidAccountId |-> 11],
      [id |-> 4, userId |-> 1, plaidAccountId |-> 14],
      [id |-> 2, userId |-> 2, plaidAccountId |-> 12] }

Amzn == <<"A", "M", "Z", "N">>

\* a row written before originalDescription existed: the column is null
LegacyTransaction ==
    [id |-> 100, plaidTransactionId |-> 0, userId |-> 1, accountId |-> 1,
     name |-> Netflix, merchantName |-> Netflix, amount |-> 0 - 3198,
     date |-> (SyncToday - 30) * TicksPerDay, originalDescription |-> <<>>]

\* the store of a user whose item was linked and synced once, before the feed
\* of the run: the cursor stands at the feed's start
InitSync ==
    /\ now = UtcNoon(SyncToday)
    /\ patterns = {}
    /\ transactions = {LegacyTransaction}
    /\ accessToken = [transactionSyncCursor |-> 0]
    /\ feed = <<>>
    /\ forecasts = {}
    /\ ftx = {}
    /\ sess = [s \in Sessions |->
                  [pc |-> "idle", accountId |-> Null, cursor |-> Null, fetched |-> <<>>,
                   feedLen |-> 0]]
    /\ results = <<>>
    /\ completed = 0
    /\ changes = 0
    /\ others = 0
    /\ edited = {}
    /\ pure = IdlePure

\* the bank posts a transaction of an account of the item; Plaid sends
\* expenses with a positive amount
FeedAdd(plaidAccountId, name, day) ==
    /\ Len(feed) < MaxFeed
    /\ feed' = Append(feed,
          [transaction_id |-> Len(feed) + 1, account_id |-> plaidAccountId,
           name |-> name, merchant_name |-> <<>>, amount |-> 2500, date |-> day])
    /\ UNCHANGED <<now, store, sess, results, completed, changes, others, edited, pure>>

\* the bank changes the description of a transaction of the feed
FeedRename(i, name) ==
    /\ changes < MaxNameChanges
    /\ i \in 1..Len(feed)
    /\ feed[i].name # name
    /\ feed' = [feed EXCEPT ![i].name = name]
    /\ changes' = changes + 1
    /\ UNCHANGED <<now, store, sess, results, completed, others, edited, pure>>

\* what a sync call returned or threw
SyncResult(status, accountId, plaidAccountId, feedLen, added) ==
    [op |-> "sync", status |-> status, accountId |-> accountId,
     plaidAccountId |-> plaidAccountId, feedLen |-> feedLen, added |-> added,
     seq |-> completed + 1]

\* fetchTransactionsFromPlaid up to the call of Plaid: the account is looked
\* up ('Account not found' unless it is the requester's), the access token's
\* cursor is read, and when the account has no stored transaction a set
\* cursor is reset to null, in the call and on the AccessToken row
SyncBegin(s, accountId) ==
    /\ sess[s].pc = "idle"
    /\ others < MaxSyncCalls
    /\ others' = others + 1
    /\ LET account == {a \in SyncAccounts : a.id = accountId /\ a.userId = Me}
           existingTransactionCount ==
               Cardinality({t \in transactions :
                               t.userId = Me /\ t.accountId = accountId})
           reset == existingTransactionCount = 0 /\ accessToken.transactionSyncCursor # Null
       IN  IF account = {}
           THEN /\ results' = Record(SyncResult("not_found", accountId, Null, 0, 0))
                /\ completed' = completed + 1
                /\ UNCHANGED <<sess, accessToken>>
           ELSE /\ sess' = [sess EXCEPT ![s] =
                       [pc |-> "fetch", accountId |-> accountId,
                        cursor |-> IF reset THEN Null
                                   ELSE accessToken.transactionSyncCursor,
                        fetched |-> <<>>, feedLen |-> 0]]
                /\ accessToken' = IF reset THEN [accessToken EXCEPT
                                                    !.transactionSyncCursor = Null]
                                  ELSE accessToken
                /\ UNCHANGED <<results, completed>>
    /\ UNCHANGED <<now, patterns, transactions, feed, forecasts, ftx, changes, edited, pure>>

\* new Date('YYYY-MM-DD'): midnight UTC of the day
FeedDate(t) == t.date * TicksPerDay

\* transactionDate >= start && transactionDate <= end, the last 90 days
InSyncRange(t) ==
    /\ FeedDate(t) >= now - 90 * TicksPerDay
    /\ FeedDate(t) <= now

\* SelectSeq with the test written out
RECURSIVE FilterSeq(_, _)
FilterSeq(q, keep) ==
    IF q = <<>> THEN <<>>
    ELSE IF Head(q) \in keep THEN <<Head(q)>> \o FilterSeq(Tail(q), keep)
         ELSE FilterSeq(Tail(q), keep)

\* plaidClient.transactionsSync from the call's cursor (one page: the added
\* transactions after the cursor, as the feed now has them), the filter to the
\* account, the write of next_cursor to the AccessToken row, the date filter
SyncFetch(s) ==
    /\ sess[s].pc = "fetch"
    /\ LET account == CHOOSE a \in SyncAccounts : a.id = sess[s].accountId
           from == IF sess[s].cursor = Null THEN 0 ELSE sess[s].cursor
           added == SubSeq(feed, from + 1, Len(feed))
           accountTransactions ==
               FilterSeq(added, {t \in Range(added) : t.account_id = account.plaidAccountId})
           filteredTransactions ==
               FilterSeq(accountTransactions,
                         {t \in Range(accountTransactions) : InSyncRange(t)})
       IN  /\ accessToken' = [accessToken EXCEPT !.transactionSyncCursor = Len(feed)]
           /\ sess' = [sess EXCEPT ![s].pc = "persist",
                                   ![s].fetched = filteredTransactions,
                                   ![s].feedLen = Len(feed)]
    /\ UNCHANGED <<now, patterns, transactions, feed, forecasts, ftx, results, completed,
                   changes, others, edited, pure>>

\* the name of an existing row is kept when the user has edited it
PreserveName(existing, plaidName) ==
    LET \* .toLowerCase().trim()
        LowerTrim(str) == TrimEnd(TrimStart([i \in 1..Len(str) |-> ToLowerChar(str[i])]))
    IN
    IF existing.originalDescription # <<>>
    THEN existing.name # plaidName /\ existing.name # existing.originalDescription
    ELSE /\ existing.name # plaidName
         /\ LowerTrim(existing.name) # LowerTrim(existing.merchantName)
         /\ existing.merchantName # <<>>

\* the persistence of one transaction with originalDescription overwritten
\* by the feed's name
PersistOneOverwriting(rows, t) ==
    LET dbAccount == {a \in SyncAccounts : a.plaidAccountId = t.account_id}
        existing == {r \in rows : r.plaidTransactionId = t.transaction_id}
    IN  IF dbAccount = {} THEN rows
        ELSE IF existing # {}
        THEN (rows \ existing) \cup
                 {[r EXCEPT !.amount = 0 - t.amount,
                            !.date = FeedDate(t),
                            !.name = IF PreserveName(r, t.name) THEN r.name ELSE t.name,
                            !.merchantName = t.merchant_name,
                            !.originalDescription = t.name] :
                     r \in existing}
        ELSE rows \cup
                 {[id |-> 100 + t.transaction_id,
                   plaidTransactionId |-> t.transaction_id,
                   userId |-> Me,
                   accountId |-> (CHOOSE a \in dbAccount : TRUE).id,
                   name |-> t.name, merchantName |-> t.merchant_name,
                   amount |-> 0 - t.amount, date |-> FeedDate(t),
                   originalDescription |-> t.name]}

\* persistTransactionsToDb, one transaction: findUnique({ plaidTransactionId });
\* an existing row is updated (the name kept if edited, originalDescription
\* kept if set, else the feed's name), else the row is created with
\* originalDescription the feed's name; the amount's sign is flipped
PersistOne(rows, t) ==
    LET dbAccount == {a \in SyncAccounts : a.plaidAccountId = t.account_id}
        existing == {r \in rows : r.plaidTransactionId = t.transaction_id}
    IN  IF dbAccount = {} THEN rows
        ELSE IF existing # {}
        THEN (rows \ existing) \cup
                 {[r EXCEPT !.amount = 0 - t.amount,
                            !.date = FeedDate(t),
                            !.name = IF PreserveName(r, t.name) THEN r.name ELSE t.name,
                            !.merchantName = t.merchant_name,
                            !.originalDescription = OrElse(r.originalDescription, t.name)] :
                     r \in existing}
        ELSE rows \cup
                 {[id |-> 100 + t.transaction_id,
                   plaidTransactionId |-> t.transaction_id,
                   userId |-> Me,
                   accountId |-> (CHOOSE a \in dbAccount : TRUE).id,
                   name |-> t.name, merchantName |-> t.merchant_name,
                   amount |-> 0 - t.amount, date |-> FeedDate(t),
                   originalDescription |-> t.name]}

\* for (const transaction of transactions) { ... }
RECURSIVE PersistAll(_, _)
PersistAll(rows, fetched) ==
    IF fetched = <<>> THEN rows
    ELSE PersistAll(PersistOne(rows, Head(fetched)), Tail(fetched))

\* syncAndPersistTransactions after the fetch: persistTransactionsToDb of
\* what was fetched; the call returns { added: transactions.length }
SyncPersist(s) ==
    /\ sess[s].pc = "persist"
    /\ transactions' = PersistAll(transactions, sess[s].fetched)
    /\ results' = Record(SyncResult("ok", sess[s].accountId,
                     (CHOOSE a \in SyncAccounts : a.id = sess[s].accountId).plaidAccountId,
                     sess[s].feedLen, Len(sess[s].fetched)))
    /\ completed' = completed + 1
    /\ sess' = [sess EXCEPT ![s] = [pc |-> "idle", accountId |-> Null, cursor |-> Null,
                                    fetched |-> <<>>, feedLen |-> 0]]
    /\ UNCHANGED <<now, patterns, accessToken, feed, forecasts, ftx, changes, others,
                   edited, pure>>

\* PUT /:id of the transaction routes: 400 for a name that trims to nothing,
\* 404 unless the row is the requester's; the trimmed name is stored, and a
\* row without originalDescription gets its name of before as such
UpdateTransactionName(id, name) ==
    LET \* the answer of the name route
        NameAnswer(status) ==
            [op |-> "route", done |-> TRUE, route |-> "update-transaction", status |-> status]
    IN
    /\ changes < MaxNameChanges
    /\ LET found == {t \in transactions : t.id = id /\ t.userId = Me}
       IN  IF TrimEnd(TrimStart(name)) = <<>>
           THEN /\ pure' = NameAnswer(400)
                /\ UNCHANGED <<transactions, changes>>
           ELSE IF found = {}
           THEN /\ pure' = NameAnswer(404)
                /\ UNCHANGED <<transactions, changes>>
           ELSE /\ transactions' = (transactions \ found) \cup
                      {[t EXCEPT !.name = TrimEnd(TrimStart(name)),
                                 !.originalDescription =
                                     IF t.originalDescription = <<>> THEN t.name ELSE @] :
                          t \in found}
                /\ pure' = NameAnswer(200)
                /\ changes' = changes + 1
    /\ UNCHANGED <<now, patterns, accessToken, feed, forecasts, ftx, sess, results,
                   completed, others, edited>>

\* syncs of the requester's two accounts and of another user's account, as
\* the feed grows
NextSync ==
    \/ \E a \in {11, 14}, d \in {SyncToday - 1, SyncToday - 95} : FeedAdd(a, Amzn, d)
    \/ \E s \in Sessions :
          \/ \E a \in {1, 4, 2} : SyncBegin(s, a)
          \/ SyncFetch(s)
          \/ SyncPersist(s)

SpecSync == InitSync /\ [][NextSync]_vars

\* syncs of one account by two handlers, while the feed grows and renames
\* its transactions and the user edits the stored names
\* the feed renames its transaction to "Amzn Mkt"; the user names a transaction
\* " Books" or " "
NextNames ==
    \/ FeedAdd(11, Amzn, SyncToday - 1)
    \/ \E i \in 1..MaxFeed : FeedRename(i, <<"A", "m", "z", "n", " ", "M", "k", "t">>)
    \/ \E s \in Sessions :
          \/ SyncBegin(s, 1)
          \/ SyncFetch(s)
          \/ SyncPersist(s)
    \/ \E id \in {100, 101}, n \in {<<" ", "B", "o", "o", "k", "s">>, <<" ">>} :
          UpdateTransactionName(id, n)

SpecNames == InitSync /\ [][NextNames]_vars

\* ------------------------------------------------------------ groupTransactions alone

\* the longest transaction list grouped
MaxGroupInput == 5

InitGroup ==
    LET \* charges of one merchant, in half cents: 100.00, 110.00, 115.00, 119.00
        GroupAmounts == {20000, 22000, 23000, 23800}
        \* the lists of amounts of length n
        RECURSIVE AmountLists(_)
        AmountLists(n) ==
            IF n = 0 THEN {<<>>}
            ELSE {Append(q, a) : q \in AmountLists(n - 1), a \in GroupAmounts}
        \* expenses of one merchant, one a day, in the order findMany returns them
        Charges(amounts) ==
            [i \in 1..Len(amounts) |->
                [id |-> i, userId |-> 1, accountId |-> 1, name |-> Gym, merchantName |-> <<>>,
                 amount |-> 0 - amounts[i], date |-> UtcNoon(i)]]
    IN
    /\ now = 0
    /\ patterns = {}
    /\ transactions = {}
    /\ accessToken = NoAccessToken
    /\ feed = <<>>
    /\ forecasts = {}
    /\ ftx = {}
    /\ sess = [s \in Sessions |-> IdleSess]
    /\ results = <<>>
    /\ completed = 0
    /\ changes = 0
    /\ others = 0
    /\ edited = {}
    /\ pure \in UNION {{[op |-> "group", done |-> FALSE, txs |-> Charges(q), out |-> <<>>] :
                           q \in AmountLists(n)} : n \in 1..MaxGroupInput}

ApplyGroupTransactions ==
    /\ pure.op = "group"
    /\ ~pure.done
    /\ pure' = [pure EXCEPT !.done = TRUE, !.out = groupTransactions(pure.txs, <<>>)]
    /\ UNCHANGED <<now, store, feed, sess, results, completed, changes, others, edited>>

SpecGroup == InitGroup /\ [][ApplyGroupTransactions]_vars

\* ------------------------------------------------------------ properties

OkResults == {i \in 1..Len(results) : results[i].status = "ok"}

\* the non-manual rows of an account
GeneratedRows(rows) == {r \in rows : ~r.isManual}

\* same pattern, calendar date, name and amount
SameOccurrence(r1, r2) ==
    /\ r1.recurringPatternId = r2.recurringPatternId
    /\ DateStr(r1.date) = DateStr(r2.date)
    /\ r1.name = r2.name
    /\ r1.amount = r2.amount

\* C1: two successive generateForecast calls for the same account with the
\* same end date and the same patterns, on the same calendar day and with no
\* change of a forecast transaction in between, leave the same number of
\* non-manual rows in the forecast.
RegenerationKeepsCount ==
    Len(results) = 2 =>
        LET first == results[1]
            second == results[2]
        IN  ( /\ first.status = "ok"
              /\ second.status = "ok"
              /\ second.beganAfter >= first.seq
              /\ first.accountId = second.accountId
              /\ first.endDate = second.endDate
              /\ first.include = second.include
              /\ first.changes = second.changes
              /\ DateStr(first.startDate) = DateStr(second.startDate)
              /\ DateStr(now) = DateStr(first.startDate) )
            => second.count = first.count

\* C2: once the amount of a pattern row was edited, the row stays, manual and
\* with an edited amount, and the forecast holds no non-manual row of the same
\* pattern, calendar date and name that carries the pattern's own amount.
EditedRowNotRegenerated ==
    \A e \in edited :
        e.amount # Null =>
            \E r \in ftx :
                /\ r.id = e.id
                /\ r.isManual
                /\ \E e2 \in edited : e2.id = r.id /\ e2.amount = r.amount
                /\ (\A e2 \in edited : e2.id = r.id => e2.date = Null) =>
                      ~\E g \in ftx :
                          /\ g.id # r.id
                          /\ ~g.isManual
                          /\ g.forecastId = r.forecastId
                          /\ g.recurringPatternId = r.recurringPatternId
                          /\ DateStr(g.date) = DateStr(r.date)
                          /\ g.name = r.name
                          /\ \E p \in patterns : p.id = g.recurringPatternId
                                                 /\ g.amount = SignedAmount(p)

\* C3: once concurrent generateForecast calls for one account have all
\* completed, the account holds what some serial order leaves: no two
\* non-manual rows with the same pattern, calendar date, name and amount.
ConcurrentCallsLeaveNoDuplicates ==
    (\A s \in Sessions : sess[s].pc = "idle") =>
        \A r1 \in GeneratedRows(ftx), r2 \in GeneratedRows(ftx) :
            ( /\ r1.userId = r2.userId
              /\ r1.accountId = r2.accountId
              /\ SameOccurrence(r1, r2) ) => r1.id = r2.id

\* C4: no step of generateForecast, its commit included, removes or changes a
\* manual row.
ManualRowsUntouched ==
    [][ (\E s \in Sessions : GenStep(s) \/ GenCommit(s) \/ GenFail(s))
            => \A r \in ftx : r.isManual => r \in ftx' ]_vars

\* a regeneration of a forecast that held a manual row when the call began
\* has committed, and the row is there, as the call returned it
WitnessManualRowsUntouched ==
    \E i \in OkResults :
        /\ ~results[i].created
        /\ results[i].beganChanges >= 1
        /\ results[i].count > 0
        /\ \E r \in ftx : /\ r.isManual
                          /\ r.forecastId = results[i].forecastId
                          /\ r \in results[i].transactions

\* C5: there is at most one Forecast row per user and account.
AtMostOneForecastPerAccount ==
    \A f \in forecasts, g \in forecasts :
        (f.userId = g.userId /\ f.accountId = g.accountId) => f.id = g.id

\* C6: a generateForecast call for an account that does not exist or belongs to
\* another user ends with 'Account not found' and changes no Forecast,
\* ForecastTransaction or RecurringPattern record.
NotFoundWritesNothing ==
    [][ \A a \in AccountIds :
            ( /\ ~\E acc \in Accounts : acc.id = a /\ acc.userId = Me
              /\ \E s \in Sessions, e \in EndDates, i \in IncludeSets :
                     GenBegin(s, a, e, i) )
            => /\ UNCHANGED <<store, sess>>
               /\ results'[Len(results')].status = "not_found" ]_vars

\* a call for another user's account was refused while the store held a
\* forecast and its rows
WitnessNotFoundWritesNothing ==
    /\ Len(results) = 2
    /\ results[2].status = "not_found"
    /\ results[2].accountId = 2
    /\ ftx # {}
    /\ \A f \in forecasts : f.accountId = 1

\* C7: a generateForecast call that fails after the account was found leaves
\* the store as it was: no step before the commit, and no failure, changes a
\* stored record.
FailureLeavesStore ==
    [][ (\E s \in Sessions : GenStep(s) \/ GenFail(s)) => UNCHANGED store ]_vars

\* a call that had created a forecast and inserted rows failed, and neither
\* the forecast nor a row is stored
WitnessFailureLeavesStore ==
    \E i \in 1..Len(results) :
        /\ results[i].status = "failed"
        /\ results[i].created
        /\ results[i].count > 0
        /\ forecasts = {}
        /\ ftx = {}

\* the balance the claim gives the snapshot of calendar day d
ClaimedBalance(rows, today, initialBalance, startDate, d) ==
    initialBalance
    + SumAmounts({r \in rows : /\ DateStr(r.date) > today
                               /\ DateStr(r.date) >= DateStr(startDate)
                               /\ DateStr(r.date) <= d})

\* C8: projectBalance returns one snapshot for every calendar day from
\* startDate's day through endDate's day, in ascending order, each with
\* initialBalance plus the future transactions dated from startDate's day to
\* that day.
OneSnapshotPerCalendarDay ==
    (pure.op = "projection" /\ pure.done) =>
        LET first == DateStr(pure.startDate)
            last == DateStr(pure.endDate)
            mine == {r \in ftx : r.forecastId = 1}
        IN  /\ Len(pure.out) = IF last >= first THEN last - first + 1 ELSE 0
            /\ \A k \in 1..Len(pure.out) :
                  /\ DateStr(pure.out[k].date) = first + k - 1
                  /\ pure.out[k].balance =
                        ClaimedBalance(mine, DateStr(now), pure.initialBalance,
                                       pure.startDate, first + k - 1)

\* C9: the snapshots a generateForecast call returns are the projection over
\* the transactions it returns: each snapshot holds initialBalance plus the
\* returned transactions dated after today, from startDate's day to its day.
SnapshotsCoverReturnedTransactions ==
    \A i \in OkResults :
        ( /\ results[i].changes = results[i].beganChanges
          /\ DateStr(now) = DateStr(results[i].startDate) ) =>
            \A k \in 1..Len(results[i].snapshots) :
                results[i].snapshots[k].balance =
                    ClaimedBalance(results[i].transactions,
                                   DateStr(results[i].startDate),
                                   results[i].initialBalance, results[i].startDate,
                                   DateStr(results[i].snapshots[k].date))

\* C10: every date calculateNextOccurrences returns lies in the window and is
\* not after the pattern's endDate.
OccurrencesInsideWindow ==
    (pure.op = "occurrences" /\ pure.done) =>
        \A k \in 1..Len(pure.out) :
            /\ pure.startDate <= pure.out[k]
            /\ pure.out[k] <= pure.endDate
            /\ HasValue(pure.pattern.endDate) => pure.out[k] <= pure.pattern.endDate

\* the first date on or after t that falls on weekday w
FirstOnWeekday(t, w) == AddDays(t, (w - GetDay(t) + 7) % 7)

\* C11: for a biweekly pattern with a dayOfWeek whose startDate is on another
\* weekday and inside the window, the first date returned is the first date on
\* or after pattern.startDate on that weekday (when the window and the
\* pattern's endDate admit it), and each later date is 14 days after the one
\* before.
BiweeklyStartsOnFirstWeekday ==
    ( /\ pure.op = "occurrences"
      /\ pure.done
      /\ pure.pattern.frequency = "biweekly"
      /\ pure.pattern.dayOfWeek \in 0..6
      /\ GetDay(pure.pattern.startDate) # pure.pattern.dayOfWeek
      /\ pure.startDate <= pure.pattern.startDate
      /\ pure.pattern.startDate <= pure.endDate ) =>
        LET first == FirstOnWeekday(pure.pattern.startDate, pure.pattern.dayOfWeek)
        IN  /\ ( /\ first <= pure.endDate
                 /\ HasValue(pure.pattern.endDate) => first <= pure.pattern.endDate )
               => (Len(pure.out) >= 1 /\ pure.out[1] = first)
            /\ \A k \in 2..Len(pure.out) : pure.out[k] = AddDays(pure.out[k - 1], 14)

\* a pattern amount with the sign its type asks for, from the magnitude
Magnitude(a) == IF a < 0 THEN 0 - a ELSE a

\* C12: a row inserted by generation from an expense pattern is negative, from
\* an income pattern positive, and of the magnitude of the stored
\* pattern.amount, whatever the stored amount's sign (amounts other than 0).
InsertedAmountFollowsType ==
    [][ \A s \in Sessions : GenInsert(s) =>
          \A r \in sess'[s].ins \ sess[s].ins :
             \A p \in patterns :
                (p.id = r.recurringPatternId /\ p.amount # 0) =>
                   /\ p.transactionType = "expense" =>
                         (r.amount < 0 /\ r.amount = 0 - Magnitude(p.amount))
                   /\ p.transactionType = "income" =>
                         (r.amount > 0 /\ r.amount = Magnitude(p.amount)) ]_vars

\* a committed row generated from an expense pattern stored with a negative
\* amount, and one from an income pattern stored with a negative amount
WitnessInsertedAmountFollowsType ==
    /\ \E r \in ftx, p \in patterns :
          /\ p.id = r.recurringPatternId /\ ~r.isManual
          /\ p.transactionType = "expense" /\ p.amount < 0
    /\ \E r \in ftx, p \in patterns :
          /\ p.id = r.recurringPatternId /\ ~r.isManual
          /\ p.transactionType = "income" /\ p.amount < 0

\* C13: generation stages, and then inserts, only occurrences whose calendar
\* date is strictly after today's calendar date: nothing dated today or
\* earlier is inserted.
InsertedOnlyAfterToday ==
    [][ \A s \in Sessions :
          /\ GenLoad(s) =>
                \A i \in 1..Len(sess'[s].toCreate) :
                   DateStr(sess'[s].toCreate[i].date) > DateStr(now)
          /\ GenInsert(s) =>
                \A r \in sess'[s].ins \ sess[s].ins :
                   /\ r.date = Head(sess[s].toCreate).date
                   /\ DateStr(r.date) > DateStr(sess[s].startDate) ]_vars

\* a committed forecast begun on day 0 and through day 2 whose daily pattern
\* has its day 2 row and no day 1 row: day 1 was today when the filter ran
WitnessInsertedOnlyAfterToday ==
    \E f \in forecasts :
       /\ DateStr(f.startDate) = 0
       /\ \E r \in ftx : r.forecastId = f.id /\ r.recurringPatternId = 1
                         /\ DateStr(r.date) = 2
       /\ ~ \E r \in ftx : r.forecastId = f.id /\ DateStr(r.date) = 1

\* the last result recorded
LastResult(rs) == rs[Len(rs)]

\* C14: the patterns a detection request persists and returns all have a
\* confidence of at least max(minConfidence, 0.6), minConfidence being what
\* detectPatterns was called with.
DetectedConfidenceAtLeastFloor ==
    [][ completed' = completed + 1 =>
           LET r == LastResult(results')
               least == IF r.minConfidence > 600 THEN r.minConfidence ELSE 600
           IN  \A p \in (patterns' \ patterns) \cup Range(r.patterns) :
                  p.confidence >= least ]_vars

\* on a history holding a group of confidence 0.41 and one of 0.76, a run with
\* minConfidence 0.3 returned the second alone and a run with 0.9 returned none
WitnessDetectedConfidenceAtLeastFloor ==
    /\ transactions = IrregularAndSunday
    /\ Len(results) = 2
    /\ results[1].accountId = 1 /\ results[1].minConfidence = 300
    /\ Len(results[1].patterns) = 1
    /\ results[1].patterns[1].confidence = 760
    /\ results[2].accountId = 1 /\ results[2].minConfidence = 900
    /\ results[2].patterns = <<>>

\* the first group's intervals have the smaller standard deviation: the
\* counts are equal, so the deviations compare as the sums of squares
LessSpread(one, other) ==
    LET a == IntervalStats(SortedDates(one))
        b == IntervalStats(SortedDates(other))
    IN  a.k = b.k /\ a.Q < b.Q

SameMeanInterval(one, other) ==
    IntervalStats(SortedDates(one)).S = IntervalStats(SortedDates(other)).S

\* C15 as stated: of two groups of equal size in the same bucket, the one with
\* the smaller interval standard deviation gets at least the other's confidence.
LessSpreadNoLessConfidence ==
    ( /\ pure.op = "confidence" /\ pure.done
      /\ pure.outOther.frequency # "none"
      /\ FrequencyOf(pure.one).frequency = pure.outOther.frequency
      /\ LessSpread(pure.one, pure.other) )
        => /\ pure.outOne.frequency # "none"
           /\ pure.outOne.confidence >= pure.outOther.confidence

\* C15 amended: the same, for the buckets with a fixed reference interval, and
\* in the daily bucket for groups of equal mean interval.
LessSpreadNoLessConfidenceFixedReference ==
    ( /\ pure.op = "confidence" /\ pure.done
      /\ pure.outOther.frequency # "none"
      /\ FrequencyOf(pure.one).frequency = pure.outOther.frequency
      /\ LessSpread(pure.one, pure.other)
      /\ pure.outOther.frequency = "daily" => SameMeanInterval(pure.one, pure.other) )
        => /\ pure.outOne.frequency # "none"
           /\ pure.outOne.confidence >= pure.outOther.confidence

\* two weekly groups of different mean interval, the first with less spread
\* and more confidence
WitnessLessSpreadNoLessConfidence ==
    /\ pure.op = "confidence" /\ pure.done
    /\ pure.outOne.frequency = "weekly" /\ pure.outOther.frequency = "weekly"
    /\ ~SameMeanInterval(pure.one, pure.other)
    /\ LessSpread(pure.one, pure.other)
    /\ pure.outOne.confidence > pure.outOther.confidence

\* the month a date falls in, counted from the epoch year
MonthIndex(t) == 12 * GetYear(t) + GetMonth(t)

\* the rows are n >= 3 rows of one name and one negative amount, one in each
\* of n consecutive months, all on day d of the month
SameDayOfConsecutiveMonths(rows, d) ==
    LET months == {MonthIndex(t.date) : t \in rows}
    IN  /\ Cardinality(rows) >= 3
        /\ Cardinality(months) = Cardinality(rows)
        /\ \E first \in months : \A m \in months : m = first \/ (m - 1) \in months
        /\ \A t, u \in rows : t.name = u.name /\ t.amount = u.amount
        /\ \A t \in rows : t.amount < 0 /\ GetDate(t.date) = d

\* C16: when the account's only transactions are n >= 3 of the same name and
\* negative amount on the same day d <= 28 of consecutive months, a detection
\* with the default minConfidence returns exactly one pattern: monthly,
\* dayOfMonth d, expense, confidence >= 0.6.
MonthlyChargeDetected ==
    \A d \in 1..28 :
       SameDayOfConsecutiveMonths({t \in transactions : t.accountId = 1}, d) =>
          \A i \in 1..Len(results) :
             (results[i].accountId = 1 /\ results[i].minConfidence = 600) =>
                /\ Len(results[i].patterns) = 1
                /\ results[i].patterns[1].frequency = "monthly"
                /\ results[i].patterns[1].dayOfMonth = d
                /\ results[i].patterns[1].transactionType = "expense"
                /\ results[i].patterns[1].confidence >= 600

\* four charges on the 28th from November to February, detected
WitnessMonthlyChargeDetected ==
    /\ SameDayOfConsecutiveMonths({t \in transactions : t.accountId = 1}, 28)
    /\ Cardinality(transactions) = 4
    /\ \E t \in transactions : MonthIndex(t.date) = 13
    /\ \E i \in 1..Len(results) :
          /\ results[i].accountId = 1 /\ results[i].minConfidence = 600
          /\ Len(results[i].patterns) = 1
          /\ results[i].patterns[1].dayOfMonth = 28

\* a pattern without its generated id (the model keeps no timestamps)
WithoutId(p) ==
    [name |-> p.name, merchantName |-> p.merchantName, userId |-> p.userId,
     accountId |-> p.accountId, amount |-> p.amount,
     amountVariance |-> p.amountVariance, frequency |-> p.frequency,
     dayOfMonth |-> p.dayOfMonth, dayOfWeek |-> p.dayOfWeek,
     startDate |-> p.startDate, endDate |-> p.endDate,
     transactionType |-> p.transactionType, confidence |-> p.confidence]

\* C17: over the same stored transactions, a detection run and a later run
\* that first deletes all the account's patterns return the same set of
\* patterns, ids aside.
DetectionRepeatable ==
    ( /\ Len(results) = 2
      /\ results[1].accountId = results[2].accountId
      /\ results[1].minConfidence = results[2].minConfidence
      /\ results[2].op = "redetect" ) =>
        {WithoutId(p) : p \in Range(results[1].patterns)}
            = {WithoutId(p) : p \in Range(results[2].patterns)}

\* C18: a redetectPatterns call leaves none of the patterns the account had
\* before it; the account's patterns are then exactly those the detection run
\* created and returned, and every other account's patterns are as they were.
RedetectReplacesAccountPatterns ==
    [][ (completed' = completed + 1 /\ LastResult(results').op = "redetect") =>
           LET r == LastResult(results')
               mine(rows) == {p \in rows : p.userId = Me /\ p.accountId = r.accountId}
           IN  /\ \A p \in mine(patterns) : ~ \E q \in patterns' : q.id = p.id
               /\ mine(patterns') = Range(r.patterns)
               /\ patterns' \ mine(patterns') = patterns \ mine(patterns) ]_vars

\* after a redetection for account 1 that found a pattern, the hand-made
\* pattern is gone, the found one is stored and the other user's is still there
WitnessRedetectReplacesAccountPatterns ==
    /\ Len(results) >= 1
    /\ LastResult(results).op = "redetect"
    /\ LastResult(results).accountId = 1
    /\ LastResult(results).patterns # <<>>
    /\ HandMadePattern \notin patterns
    /\ StrangerPattern \in patterns
    /\ Range(LastResult(results).patterns) \subseteq patterns

\* C19: an update of a row that has a recurringPatternId and is not manual
\* leaves it manual with the same recurringPatternId, and no step of any
\* operation takes a row from manual to not manual.
EditMakesManualForGood ==
    [][ /\ \A r \in ftx, a \in EditAmounts :
              ( /\ UpdateForecastTransaction(r.id, a, Null)
                /\ r.recurringPatternId # Null
                /\ ~r.isManual ) =>
                 \E u \in ftx' : /\ u.id = r.id
                                 /\ u.isManual
                                 /\ u.recurringPatternId = r.recurringPatternId
        /\ \A r \in ftx, u \in ftx' : (u.id = r.id /\ r.isManual) => u.isManual ]_vars

\* a generated row that was edited: manual, with its pattern reference, and a
\* later generateForecast call has completed
WitnessEditMakesManualForGood ==
    /\ \E r \in ftx : /\ r.isManual
                      /\ r.recurringPatternId # Null
                      /\ r.amount \in EditAmounts
    /\ edited # {}
    /\ Len(results) >= 1
    /\ LastResult(results).status = "ok"
    /\ LastResult(results).beganChanges >= 1

\* C20: every stored pattern has the phase field of its frequency class and
\* not the other: weekly and biweekly a dayOfWeek in 0..6 and no dayOfMonth,
\* monthly, quarterly and yearly a dayOfMonth and no dayOfWeek.
PhaseFieldByFrequencyClass ==
    \A p \in patterns :
       /\ p.frequency \in {"weekly", "biweekly"} =>
             (p.dayOfWeek \in 0..6 /\ p.dayOfMonth = Null)
       /\ p.frequency \in {"monthly", "quarterly", "yearly"} =>
             (p.dayOfMonth \in 1..31 /\ p.dayOfWeek = Null)

\* C23: calculateNextOccurrences returns no date on a calendar day before the
\* day of pattern.startDate (stated for patterns whose dayOfWeek, if any, is
\* a weekday 0..6).
NoOccurrenceBeforePatternStart ==
    ( /\ pure.op = "occurrences" /\ pure.done
      /\ HasValue(pure.pattern.startDate)
      /\ pure.pattern.dayOfWeek \in {Null} \cup 0..6 ) =>
        \A k \in 1..Len(pure.out) :
           DateStr(pure.out[k]) >= DateStr(pure.pattern.startDate)

\* C22: when generateForecast completes, the stored forecast's
\* projectedBalance is the balance of the last snapshot the call computed.
ProjectedBalanceIsLastSnapshot ==
    [][ \A s \in Sessions :
          (GenCommit(s) /\ sess[s].snapshots # <<>>) =>
             \E f \in forecasts' :
                /\ f.id = sess[s].forecastId
                /\ f.projectedBalance = sess[s].snapshots[Len(sess[s].snapshots)].balance ]_vars

\* the stored projectedBalance of forecast fid is the balance of the last day
\* projectBalance computes from the forecast's stored transactions
StoredBalanceCurrent(fid) ==
    \A f \in forecasts :
       f.id = fid =>
          LET snapshots == projectBalance(ftx, f.userId, f.accountId, f.id,
                                          f.initialBalance, f.startDate, f.endDate)
          IN  snapshots # <<>> =>
                 f.projectedBalance = snapshots[Len(snapshots)].balance

\* C26: a completed operation that changes the transactions of a forecast
\* leaves the stored projectedBalance equal to the last-day balance that
\* projectBalance computes from the forecast's transactions as they now are
\* (checked for forecasts whose stored balance was current before the
\* operation).
ProjectedBalanceFollowsMutation ==
    [][ \A fid \in {f.id : f \in forecasts} :
          ( /\ \A s \in Sessions : sess'[s].pc = "idle"
            /\ {r \in ftx : r.forecastId = fid} # {r \in ftx' : r.forecastId = fid}
            /\ StoredBalanceCurrent(fid) )
          => StoredBalanceCurrent(fid)' ]_vars

\* C27: create-manual-transaction naming an account of another user (and a
\* stored forecast) is rejected with NotFound and writes nothing: no record is
\* created under another user's account.
ForeignAccountRejected ==
    [][ ( /\ pure' # pure
          /\ pure'.op = "route"
          /\ pure'.route = "manual"
          /\ FindAccountAnyUser(Me, pure'.accountId) # {}
          /\ FindAccount(Me, pure'.accountId) = {}
          /\ \E f \in forecasts : f.id = pure'.forecastId )
        => (pure'.status = 404 /\ UNCHANGED store) ]_vars

\* C29: groupTransactions partitions its input: every transaction is a
\* member of exactly one returned group, and the sizes of the groups sum to
\* the number of transactions.
GroupsPartitionInput ==
    (pure.op = "group" /\ pure.done) =>
        /\ SumSeq([g \in 1..Len(pure.out) |-> Len(pure.out[g].transactions)])
              = Len(pure.txs)
        /\ \A i \in 1..Len(pure.txs) :
              Cardinality({g \in 1..Len(pure.out) :
                              \E k \in 1..Len(pure.out[g].transactions) :
                                 pure.out[g].transactions[k] = pure.txs[i]}) = 1

\* C21: every stored RecurringPattern has amount >= 0, whatever pattern
\* requests were served.
StoredPatternAmountNotNegative ==
    \A p \in patterns : p.amount >= 0

\* the stepping of calculateNextOccurrences has come to its end within the
\* iterations a strictly ascending run of the window can take: after the last
\* date returned, the loop's own conditions stop it
SteppingEnded(pattern, startDate, endDate, out) ==
    LET eff == EffectiveEndDate(pattern, endDate)
        last == IF out = <<>> THEN FirstCurrentDate(pattern, startDate)
                ELSE out[Len(out)]
    IN  \/ ~(last <= eff)
        \/ pattern.frequency \notin Frequencies
        \/ ~(NextDate(pattern, last) <= eff)

\* C24: for a pattern the pattern requests have stored and a finite window,
\* calculateNextOccurrences terminates and the dates it returns are strictly
\* ascending.
StoredPatternOccurrencesAscend ==
    (pure.op = "occurrences" /\ pure.done) =>
        /\ SteppingEnded(pure.pattern, pure.startDate, pure.endDate, pure.out)
        /\ \A k \in 1..(Len(pure.out) - 1) : pure.out[k] < pure.out[k + 1]

\* the stored patterns of the requester's account 1
AccountPatterns == {p \in patterns : p.userId = Me /\ p.accountId = 1}

\* the set one detection over the stored history yields, ids aside
FreshlyDetected(minConfidence) ==
    {WithoutId(p) :
        p \in Range(detectPatterns(
                 CHOOSE o \in DateOrders({t \in transactions :
                                             t.userId = Me /\ t.accountId = 1}) : TRUE,
                 Me, 1, minConfidence, 0))}

\* C25: once every redetectPatterns call for the account has ended, returned
\* or failed, the account holds either its previous pattern set or exactly
\* one freshly detected set: not an empty set after a failure, not two copies
\* of a detected pattern.
RedetectIsAtomic ==
    (\A s \in Sessions : sess[s].pc = "idle") =>
        /\ \A p, q \in AccountPatterns : WithoutId(p) = WithoutId(q) => p = q
        /\ \/ AccountPatterns = {HandMadePattern}
           \/ \E m \in {300, (6 * ConfScale) \div 10} :
                 {WithoutId(p) : p \in AccountPatterns} = FreshlyDetected(m)

SyncedAccountHasItsFeedTransactions ==
    \A i \in 1..Len(feed) :
       ( /\ \A s \in Sessions : sess[s].pc = "idle"
         /\ InSyncRange(feed[i])
         /\ \E k \in 1..Len(results) :
               /\ results[k].op = "sync"
               /\ results[k].status = "ok"
               /\ results[k].plaidAccountId = feed[i].account_id
               /\ results[k].feedLen >= i )
       => \E row \in transactions : row.plaidTransactionId = feed[i].transaction_id

====
